---- MODULE Spec2Model ----
(***************************************************************************)
(* Model of the inline completion engine: the suggestion provider          *)
(* pipeline (SuggestionPopup.getSuggestions), the block context scanner    *)
(* (getLatexBlockType) and the acceptance of a suggestion                  *)
(* (SuggestionPopup.selectSuggestion / applySelectedItem) next to the      *)
(* snippet placeholder manager.                                            *)
(***************************************************************************)
EXTENDS Integers, Sequences, FiniteSets, TLC

VARIABLES
  \* ---- provider pipeline (popup.ts, getSuggestions)
  providers,     \* the provider list the loop walks, in order
  suggestions,   \* SuggestionPopup.suggestions
  consulted,     \* indexes of the providers whose getSuggestions was called
  logged,        \* indexes reported by console.error in the catch block
  threw,         \* TRUE iff an exception escaped getSuggestions
  lastOp,        \* the operation that produced the current state
  \* ---- block context scanner (editor_helpers.ts, getLatexBlockType)
  doc,           \* the document: the sequence of its lines, each a sequence of characters
  pos,           \* the position handed to the scanner / the editor cursor
  triggerInCodeBlocks,  \* the flag handed to getLatexBlockType
  stack,         \* the token stack built by the scan
  blockType,     \* the value returned by getLatexBlockType
  examined,      \* the line indexes the last call walked and those it read with getLine
  \* ---- acceptance of a suggestion (popup.ts, main.ts, snippet_manager.ts)
  text,          \* the editor's document: the sequence of its lines
  cursor,        \* editor.getCursor()
  context,       \* the popup's trigger context (open, start, end, query)
  selectedIndex, \* SuggestionPopup.selectedIndex
  applied,       \* the suggestion last passed to selectSuggestion, if any
  insertSpaceAfterComplete,  \* settings.insertSpaceAfterComplete
  lastCursorLine,            \* SuggestionPopup.lastCursorLine
  shouldPreventNextTrigger,  \* SuggestionPopup.shouldPreventNextTrigger
  placeholders,  \* SnippetManager.placeholders: the queue of placeholder references
  \* ---- snippet placeholder manager (snippet_manager.ts, marker_state_field.ts)
  views,         \* per editor: its document, its markerStateField and its selection
  ret,           \* what the last snippet manager operation returned
  steps,         \* the number of snippet manager events so far
  \* ---- prefix dictionary (dictionary_provider.ts, scanner/word list providers)
  wordMap,       \* DictionaryProvider.wordMap: the buckets, in Map insertion order
  blacklist,     \* SuggestionBlacklist.blacklist
  asked,         \* the last call on the dictionary and what it returned
  pluginSettings,  \* plugin.settings, as far as the dictionary providers read it
  vault,         \* the word list files of the vault: each a sequence of lines
  loads,         \* the loadFromFiles calls in flight: what each still has to read
  \* ---- LaTeX command provider (latex_provider.ts)
  loadedCommands,  \* LatexSuggestionProvider.loadedCommands
  latexSettings,   \* plugin.settings, as far as the LaTeX provider reads it
  latexCall,       \* the last getSuggestions call on the LaTeX provider and its result
  \* ---- popup session (popup.ts, main.ts commands)
  popupCall,       \* the last popup call or command and what it returned
  \* ---- front-matter key table (front_matter_provider.ts)
  metadata,            \* the metadata cache: per file, its current CachedMetadata
  fileSuggestionCache  \* FrontMatterSuggestionProvider.fileSuggestionCache

pipeVars == <<providers, suggestions, consulted, logged, threw>>
scanVars == <<doc, pos, triggerInCodeBlocks, stack, blockType, examined>>
acceptVars == <<text, cursor, context, selectedIndex, applied, insertSpaceAfterComplete,
                lastCursorLine, shouldPreventNextTrigger, placeholders>>
vars == <<providers, suggestions, consulted, logged, threw, lastOp,
          doc, pos, triggerInCodeBlocks, stack, blockType, examined,
          text, cursor, context, selectedIndex, applied, insertSpaceAfterComplete,
          lastCursorLine, shouldPreventNextTrigger, placeholders,
          views, ret, steps,
          wordMap, blacklist, asked, pluginSettings, vault, loads,
          loadedCommands, latexSettings, latexCall, popupCall,
          metadata, fileSuggestionCache>>
snippetVars == <<views, ret, steps>>
dictVars == <<wordMap, blacklist, asked, pluginSettings, vault, loads>>
latexVars == <<loadedCommands, latexSettings, latexCall>>
sessionVars == <<popupCall>>
frontMatterVars == <<metadata, fileSuggestionCache>>
providerVars == <<latexVars, sessionVars, frontMatterVars>>

DEFAULT_SETTINGS ==
  [enabled |-> TRUE, wordInsertionMode |-> "IGNORE_CASE_REPLACE",
   ignoreDiacriticsWhenFiltering |-> FALSE, minWordTriggerLength |-> 2,
   minWordLength |-> <<>>, autoTrigger |-> TRUE]

\* The dictionary providers as constructed: no bucket, nothing loading.
DictIdle ==
  /\ wordMap = <<>>
  /\ blacklist = {}
  /\ asked = [op |-> "none"]
  /\ pluginSettings = DEFAULT_SETTINGS
  /\ vault = <<>>
  /\ loads = <<>>

\* The LaTeX provider as constructed, under the default settings.
LATEX_DEFAULT_SETTINGS ==
  [enableLatexProvider |-> TRUE, latexTriggerInCodeBlocks |-> TRUE, latexIgnoreCase |-> TRUE,
   minWordTriggerLength |-> 2]

LatexIdle ==
  /\ loadedCommands = <<>>
  /\ latexSettings = LATEX_DEFAULT_SETTINGS
  /\ latexCall = [op |-> "none"]

\* The other providers and the popup session as constructed.
SessionIdle == popupCall = [op |-> "none"]
\* The front-matter provider as constructed: no file has been looked at.
Files == {"f1", "f2"}
FrontMatterIdle ==
  /\ metadata = [f \in Files |-> <<>>]
  /\ fileSuggestionCache = [f \in Files |-> <<>>]

ProvidersIdle == LatexIdle /\ SessionIdle /\ FrontMatterIdle

\* The editors of the workspace, and an editor view as created: empty
\* document, markerStateField.create() = Decoration.none, cursor at the start.
Editors == {"e1", "e2"}
EmptyView == [text |-> <<<<>>>>, marks |-> {}, anchor |-> 0, head |-> 0]
SnippetIdle ==
  /\ views = [e \in Editors |-> EmptyView]
  /\ ret = [op |-> "none"]
  /\ steps = 0

\* The popup and the snippet manager as constructed, on an empty editor.
NoContext == [open |-> FALSE, start |-> [line |-> 0, ch |-> 0],
              end |-> [line |-> 0, ch |-> 0], query |-> <<>>]
AcceptIdle ==
  /\ text = <<<<>>>>
  /\ cursor = [line |-> 0, ch |-> 0]
  /\ context = NoContext
  /\ selectedIndex = 0
  /\ applied = <<>>
  /\ insertSpaceAfterComplete = TRUE
  /\ lastCursorLine = -1
  /\ shouldPreventNextTrigger = FALSE
  /\ placeholders = <<>>

\* ------------------------------------------------------------------ bounds
MaxProviders == 3
MaxItems == 3
MaxDocLen == 5

\* ------------------------------------------------------------------ helpers
Min(S) == CHOOSE x \in S : \A y \in S : x <= y

SeqsUpTo(S, n) == UNION {[1..k -> S] : k \in 0..n}

\* =========================================================================
\*  Suggestion provider pipeline
\* =========================================================================

\* A provider of the SuggestionProvider interface: isEnabled is optional
\* ("absent"), and when present returns true/false or throws; getSuggestions
\* returns n suggestions or throws; blocksAllOtherProviders absent == FALSE.
ProviderKinds ==
  [isEnabled : {"absent", "true", "false", "throws"},
   blocks    : BOOLEAN,
   outcome   : {"returns", "throws"},
   n         : 0..MaxItems]

\* Providers that differ only in what a call that is never made would have
\* returned are the same provider: a provider whose isEnabled says false or
\* throws never has getSuggestions called.
Provider ==
  {p \in ProviderKinds :
     /\ p.isEnabled \in {"false", "throws"} => (p.outcome = "returns" /\ p.n = 0)
     /\ p.outcome = "throws" => p.n = 0}

\* The suggestions provider number i returns: n distinct items of its own.
Results(p, i) == [k \in 1..p.n |-> [src |-> i, k |-> k]]

\* `provider.isEnabled?.(this.settings)`: undefined when the method is absent.
IsEnabledOpt(p) == IF p.isEnabled = "absent" THEN "undefined" ELSE p.isEnabled

\* JavaScript `!v` on the values the call can produce.
Falsy(v) == v \in {"undefined", "false"}

\* `if (!provider.isEnabled?.(this.settings)) continue;`
ProviderSkipped(p) == Falsy(IsEnabledOpt(p))

LoopStart == [all |-> <<>>, consulted |-> {}, logged |-> <<>>, stop |-> FALSE, threw |-> FALSE]

\* No try/catch around the provider: the exception leaves getSuggestions.
CatchRethrow(st, i) == [st EXCEPT !.threw = TRUE, !.stop = TRUE]

\* catch (e) { console.error(...) }: the error is logged, the loop goes on.
CatchProviderError(st, i) == [st EXCEPT !.logged = Append(@, i)]

\* One iteration of `for (const provider of providers)`.
LoopBody(st, ps, i) ==
  LET p == ps[i] IN
  IF IsEnabledOpt(p) = "throws" THEN CatchProviderError(st, i)
  ELSE IF ProviderSkipped(p) THEN st
  ELSE LET st1 == [st EXCEPT !.consulted = @ \cup {i}] IN
       IF p.outcome = "throws" THEN CatchProviderError(st1, i)
       ELSE LET s == Results(p, i) IN
            IF Len(s) > 0
              THEN IF p.blocks
                     THEN [st1 EXCEPT !.all = s, !.stop = TRUE]
                     ELSE [st1 EXCEPT !.all = @ \o s]
              ELSE st1

RECURSIVE ProviderLoop(_, _, _)
ProviderLoop(st, ps, i) ==
  IF i > Len(ps) \/ st.stop THEN st
  ELSE ProviderLoop(LoopBody(st, ps, i), ps, i + 1)

\* SuggestionPopup.getSuggestions: the provider loop, then this.suggestions
\* is assigned unless an exception left the method before the assignment.
GetSuggestions ==
  /\ lastOp = "init"
  /\ LET r == ProviderLoop(LoopStart, providers, 1) IN
       /\ suggestions' = IF r.threw THEN suggestions ELSE r.all
       /\ consulted' = r.consulted
       /\ logged' = r.logged
       /\ threw' = r.threw
  /\ lastOp' = "getSuggestions"
  /\ UNCHANGED <<providers, scanVars, acceptVars, snippetVars, dictVars, providerVars>>

ScanIdle ==
  /\ doc = <<<<>>>>
  /\ pos = [line |-> 0, ch |-> 0]
  /\ triggerInCodeBlocks = FALSE
  /\ stack = <<>>
  /\ blockType = "NONE"
  /\ examined = [walked |-> {}, frontMatter |-> {}, scanned |-> {}]

PipelineIdle ==
  /\ providers = <<>>
  /\ suggestions = <<>>
  /\ consulted = {}
  /\ logged = <<>>
  /\ threw = FALSE

InitPipeline ==
  /\ providers \in UNION {[1..k -> Provider] : k \in 1..MaxProviders}
  /\ suggestions = <<>>
  /\ consulted = {}
  /\ logged = <<>>
  /\ threw = FALSE
  /\ lastOp = "init"
  /\ ScanIdle
  /\ AcceptIdle
  /\ SnippetIdle
  /\ ProvidersIdle
  /\ DictIdle

NextPipeline == GetSuggestions

SpecPipeline == InitPipeline /\ [][NextPipeline]_vars

\* ---- claims about the pipeline

\* The spec's reading of "enabled": a provider is enabled unless it declares
\* itself disabled; a provider whose isEnabled throws contributes nothing.
DeclaredEnabled(p) == p.isEnabled \in {"absent", "true"}
ReturnsNonEmpty(p) == p.outcome = "returns" /\ p.n > 0
Fires(p) == DeclaredEnabled(p) /\ ReturnsNonEmpty(p) /\ p.blocks
FiringIndexes == {i \in 1..Len(providers) : Fires(providers[i])}

\* C1 (as claimed): the first provider that is enabled, returns a non-empty
\* result and is exclusive makes getSuggestions return exactly its result, and
\* no later provider is called.
C1_ExclusiveWins ==
  (lastOp = "getSuggestions" /\ FiringIndexes # {}) =>
    LET k == Min(FiringIndexes) IN
      /\ suggestions = Results(providers[k], k)
      /\ \A j \in consulted : j <= k

\* C2 (as claimed): a provider without isEnabled is treated as enabled and is
\* consulted whenever the loop reaches it; only a declared-disabled provider
\* is skipped.
StoppedBefore(i) ==
  \E j \in consulted : j < i /\ providers[j].blocks /\ ReturnsNonEmpty(providers[j])
C2_AbsentIsEnabledMeansEnabled ==
  lastOp = "getSuggestions" =>
    \A i \in 1..Len(providers) :
      (providers[i].isEnabled = "absent" /\ ~StoppedBefore(i)) => i \in consulted

\* C3: a provider that throws (in isEnabled or in getSuggestions) does not
\* make getSuggestions throw, and the list returned is the list returned
\* when that provider produces zero suggestions instead; the same other
\* providers are consulted.
ProviderThrows(p) == p.isEnabled = "throws" \/ p.outcome = "throws"
Zeroed(ps, i) ==
  [ps EXCEPT ![i] = [isEnabled |-> IF @.isEnabled = "throws" THEN "true" ELSE @.isEnabled,
                     blocks |-> @.blocks, outcome |-> "returns", n |-> 0]]
C3_FailureIsolated ==
  lastOp = "getSuggestions" =>
    /\ ~threw
    /\ \A i \in 1..Len(providers) :
         ProviderThrows(providers[i]) =>
           LET z == ProviderLoop(LoopStart, Zeroed(providers, i), 1) IN
             /\ suggestions = z.all
             /\ consulted \ {i} = z.consulted \ {i}
C3_Witness ==
  /\ lastOp = "getSuggestions"
  /\ \E i \in 1..Len(providers) :
       /\ \E x \in 1..Len(logged) : logged[x] = i
       /\ \E j \in consulted, k \in consulted :
            /\ j < i /\ i < k
            /\ providers[j].n > 0 /\ providers[k].n > 0
            /\ Len(suggestions) = providers[j].n + providers[k].n

\* C4 (as claimed): when no exclusive provider returns a non-empty result the
\* list is the concatenation, in provider order, of the results of all enabled
\* providers.
RECURSIVE ConcatEnabled(_, _)
ConcatEnabled(ps, i) ==
  IF i > Len(ps) THEN <<>>
  ELSE (IF DeclaredEnabled(ps[i]) /\ ps[i].outcome = "returns"
          THEN Results(ps[i], i) ELSE <<>>) \o ConcatEnabled(ps, i + 1)
C4_Concatenation ==
  (lastOp = "getSuggestions" /\ FiringIndexes = {}) =>
    suggestions = ConcatEnabled(providers, 1)

\* =========================================================================
\*  Block context scanner
\* =========================================================================

\* The characters documents are made of: the two delimiter characters, the
\* escape character, an ordinary character and the line break.
\* The backtick (U+0060) is written "bt": it cannot occur in a string here.
Backtick == "bt"
Alphabet == {"$", Backtick, "\\", "x", "\n"}

\* A front-matter block with one math delimiter inside it.
FrontMatterBlock == <<"-", "-", "-", "\n", "$", "\n", "-", "-", "-", "\n">>

\* editor.getLine / editor.lastLine: the lines of the document text.
RECURSIVE SplitLines(_)
SplitLines(t) ==
  IF \A k \in 1..Len(t) : t[k] # "\n" THEN <<t>>
  ELSE LET k == Min({i \in 1..Len(t) : t[i] = "\n"}) IN
         <<SubSeq(t, 1, k - 1)>> \o SplitLines(SubSeq(t, k + 1, Len(t)))

GetLine(lines, n) == lines[n + 1]
LastLine(lines) == Len(lines) - 1

\* String.charAt with a 0-based index: "" outside the string.
CharAt(s, j) == IF j >= 0 /\ j < Len(s) THEN s[j + 1] ELSE ""

\* ---- BlockType (the constant set and its accessors)
BlockTypes == {"NONE", "DOLLAR_SINGLE", "DOLLAR_MULTI", "CODE_SINGLE", "CODE_MULTI"}
SINGLE_TYPES == <<"DOLLAR_SINGLE", "CODE_SINGLE">>

Delim(t) ==
  CASE t = "DOLLAR_MULTI" -> <<"$", "$">>
    [] t = "DOLLAR_SINGLE" -> <<"$">>
    [] t = "CODE_MULTI" -> <<Backtick, Backtick, Backtick>>
    [] t = "CODE_SINGLE" -> <<Backtick>>
    [] OTHER -> <<>>

OtherType(t) ==
  CASE t = "DOLLAR_MULTI" -> "DOLLAR_SINGLE"
    [] t = "DOLLAR_SINGLE" -> "DOLLAR_MULTI"
    [] t = "CODE_MULTI" -> "CODE_SINGLE"
    [] t = "CODE_SINGLE" -> "CODE_MULTI"
    [] OTHER -> "NONE"

IsDollarBlock(t) == t \in {"DOLLAR_SINGLE", "DOLLAR_MULTI"}
IsCodeBlock(t) == ~IsDollarBlock(t) /\ t # "NONE"

FrontMatterStartWindow == 5
FrontMatterEndWindow == 50
ScanWindow == 5000

Dashes == <<"-", "-", "-">>
NoFrontMatter == [startLine |-> -1, endLine |-> -1]

\* getFrontMatterBounds, with `?? { startLine: -1, endLine: -1 }` applied.
GetFrontMatterBounds(lines) ==
  LET last == LastLine(lines)
      lim == IF FrontMatterStartWindow < last THEN FrontMatterStartWindow ELSE last
      starts == {i \in 0..(lim - 1) : GetLine(lines, i) = Dashes}
  IN IF starts = {} THEN NoFrontMatter
     ELSE LET s == Min(starts)
              elim == IF FrontMatterEndWindow < last THEN FrontMatterEndWindow ELSE last
              ends == {i \in (s + 1)..elim : GetLine(lines, i) = Dashes}
          IN IF ends = {} THEN NoFrontMatter
             ELSE [startLine |-> s, endLine |-> Min(ends)]

\* substringMatches(str, target, from)
SubstringMatches(str, target, from) ==
  /\ from + Len(target) <= Len(str)
  /\ \A i \in from..(from + Len(target) - 1) : CharAt(str, i) = CharAt(target, i - from)

\* `BlockType.SINGLE_TYPES.find((b) => b.c.charAt(0) === c)`
FindSingleType(c) ==
  LET hits == {k \in 1..Len(SINGLE_TYPES) : CharAt(Delim(SINGLE_TYPES[k]), 0) = c}
  IN IF hits = {} THEN "NONE" ELSE SINGLE_TYPES[Min(hits)]

IsEscapedNever(line, j) == FALSE

\* `j > 0 && line.charAt(j - 1) === "\\"`
IsEscaped(line, j) == j > 0 /\ CharAt(line, j - 1) = "\\"

\* The wide delimiter matched forward from j instead of ending at j.
IsMultiForward(line, bt, j) ==
  LET multiLen == Len(Delim(OtherType(bt))) IN
    j + 1 >= multiLen /\ SubstringMatches(line, Delim(OtherType(bt)), j)

\* `j + 1 >= multiLen && substringMatches(line, bt.otherType.c, j - multiLen + 1)`
IsMulti(line, bt, j) ==
  LET multiLen == Len(Delim(OtherType(bt))) IN
    j + 1 >= multiLen /\ SubstringMatches(line, Delim(OtherType(bt)), j - multiLen + 1)

\* The inner loop `for (let j = ...; j >= 0; j--)` over one line. Each pushed
\* token records, next to the type and line the code stores, the value of j
\* at the push (the column where the token starts).
RECURSIVE ScanLine(_, _, _, _)
ScanLine(line, lineIndex, j, acc) ==
  IF j < 0 THEN acc
  ELSE LET bt == FindSingleType(CharAt(line, j)) IN
    IF bt = "NONE" THEN ScanLine(line, lineIndex, j - 1, acc)
    ELSE IF IsEscaped(line, j) THEN ScanLine(line, lineIndex, j - 1, acc)
    ELSE LET multi == IsMulti(line, bt, j)
             j2 == IF multi THEN j - (Len(Delim(OtherType(bt))) - 1) ELSE j
             ty == IF multi THEN OtherType(bt) ELSE bt
         IN ScanLine(line, lineIndex, j2 - 1,
                     Append(acc, [type |-> ty, line |-> lineIndex, ch |-> j2]))

\* The outer loop `for (let lineIndex = startLine; lineIndex <= pos.line; lineIndex++)`.
RECURSIVE ScanLines(_, _, _, _, _)
ScanLines(lines, fm, p, lineIndex, acc) ==
  IF lineIndex > p.line THEN acc
  ELSE IF lineIndex >= fm.startLine /\ lineIndex <= fm.endLine
    THEN ScanLines(lines, fm, p, lineIndex + 1, acc)
  ELSE LET line == GetLine(lines, lineIndex)
           j0 == IF lineIndex = p.line THEN p.ch - 1 ELSE Len(line) - 1
       IN ScanLines(lines, fm, p, lineIndex + 1, ScanLine(line, lineIndex, j0, acc))

\* `Math.max(0, pos.line - 5000)`
StartLine(p) == IF p.line - ScanWindow > 0 THEN p.line - ScanWindow ELSE 0

BuildStack(lines, p) ==
  ScanLines(lines, GetFrontMatterBounds(lines), p, StartLine(p), <<>>)

\* The lines getFrontMatterBounds reads with getLine: the first loop up to
\* the opening ---, the second loop up to the closing one.
FrontMatterReads(lines) ==
  LET last == LastLine(lines)
      lim == IF FrontMatterStartWindow < last THEN FrontMatterStartWindow ELSE last
      starts == {i \in 0..(lim - 1) : GetLine(lines, i) = Dashes}
  IN IF starts = {} THEN 0..(lim - 1)
     ELSE LET s == Min(starts)
              elim == IF FrontMatterEndWindow < last THEN FrontMatterEndWindow ELSE last
              ends == {i \in (s + 1)..elim : GetLine(lines, i) = Dashes}
          IN 0..(IF ends = {} THEN elim ELSE Min(ends))

\* The line indexes one call works on: those the line loop walks, those the
\* front-matter lookup reads, and those the line loop reads with getLine.
LinesExamined(lines, p) ==
  LET fm == GetFrontMatterBounds(lines) IN
  [walked |-> StartLine(p)..p.line,
   frontMatter |-> FrontMatterReads(lines),
   scanned |-> {l \in StartLine(p)..p.line : ~(l >= fm.startLine /\ l <= fm.endLine)}]

\* `stack.findIndex((x, i) => i > idx && x.type === block.type)`, 1-based, 0 for -1.
FindNextIndex(st, idx) ==
  LET hits == {i \in (idx + 1)..Len(st) : st[i].type = st[idx].type}
  IN IF hits = {} THEN 0 ELSE Min(hits)

RECURSIVE PairingPassAnyLine(_, _, _, _)
PairingPassAnyLine(st, idx, p, inCode) ==
  IF idx > Len(st) THEN "NONE"
  ELSE LET block == st[idx]
           nextIndex == FindNextIndex(st, idx)
       IN IF nextIndex = 0
            THEN IF ~inCode /\ IsCodeBlock(block.type) THEN "NONE" ELSE block.type
            ELSE PairingPassAnyLine(st, nextIndex + 1, p, inCode)

\* The pairing loop `while (true)`, idx 1-based.
RECURSIVE PairingPass(_, _, _, _)
PairingPass(st, idx, p, inCode) ==
  IF idx > Len(st) THEN "NONE"
  ELSE LET block == st[idx]
           nextIndex == FindNextIndex(st, idx)
       IN IF nextIndex = 0
            THEN IF ~inCode /\ IsCodeBlock(block.type) THEN "NONE"
                 ELSE IF IsCodeBlock(block.type) THEN block.type
                 ELSE IF block.type = "DOLLAR_SINGLE" /\ block.line # p.line
                        THEN PairingPass(st, idx + 1, p, inCode)
                 ELSE block.type
            ELSE PairingPass(st, nextIndex + 1, p, inCode)

\* `if (stack.length < 1) return BlockType.NONE;` and the pairing loop.
ResolveStack(st, p, inCode) ==
  IF Len(st) < 1 THEN "NONE" ELSE PairingPass(st, 1, p, inCode)

\* getLatexBlockType(editor, pos, triggerInCodeBlocks)
GetLatexBlockType(lines, p, inCode) == ResolveStack(BuildStack(lines, p), p, inCode)

Lines == doc

\* The positions of a document: a line and a character offset within it.
Positions(lines) ==
  {p \in [line : 0..LastLine(lines), ch : 0..MaxDocLen] : p.ch <= Len(GetLine(lines, p.line))}

\* One call of getLatexBlockType on the document, at any position and with
\* either value of the flag.
Classify ==
  /\ lastOp = "init"
  /\ \E p \in Positions(doc), inCode \in BOOLEAN :
       /\ pos' = p
       /\ triggerInCodeBlocks' = inCode
       /\ stack' = BuildStack(doc, p)
       /\ blockType' = ResolveStack(stack', p, inCode)
       /\ examined' = LinesExamined(doc, p)
  /\ lastOp' = "getLatexBlockType"
  /\ UNCHANGED <<doc, pipeVars, acceptVars, snippetVars, dictVars, providerVars>>

InitScan ==
  /\ \E fm \in {<<>>, FrontMatterBlock}, body \in SeqsUpTo(Alphabet, MaxDocLen) :
       doc = SplitLines(fm \o body)
  /\ pos = [line |-> 0, ch |-> 0]
  /\ triggerInCodeBlocks = FALSE
  /\ stack = <<>>
  /\ blockType = "NONE"
  /\ examined = [walked |-> {}, frontMatter |-> {}, scanned |-> {}]
  /\ lastOp = "init"
  /\ PipelineIdle
  /\ AcceptIdle
  /\ SnippetIdle
  /\ ProvidersIdle
  /\ DictIdle

NextScan == Classify

SpecScan == InitScan /\ [][NextScan]_vars

\* ---- claims about the scanner

IsDelimChar(c) == c \in {"$", Backtick}
Classified == lastOp = "getLatexBlockType"
CursorLine == GetLine(Lines, pos.line)
InFrontMatter(l) ==
  LET fm == GetFrontMatterBounds(Lines) IN l >= fm.startLine /\ l <= fm.endLine

\* The part of line l the scan reads: the whole line before the cursor's
\* line, the text before the cursor on the cursor's line.
ScannedLine(l) ==
  IF l = pos.line THEN SubSeq(GetLine(Lines, l), 1, pos.ch) ELSE GetLine(Lines, l)
ScannedLineIndexes == {l \in StartLine(pos)..pos.line : ~InFrontMatter(l)}

\* The cursor is strictly inside a span $...$ of its line: an unescaped single
\* $ before it, an unescaped single $ at or after it, no delimiter character
\* between the two and none before the opening one.
InsideClosedDollarSpan ==
  \E a \in 0..(pos.ch - 1), b \in pos.ch..(Len(CursorLine) - 1) :
    /\ b >= a + 2
    /\ CharAt(CursorLine, a) = "$" /\ CharAt(CursorLine, b) = "$"
    /\ ~IsEscaped(CursorLine, a) /\ ~IsEscaped(CursorLine, b)
    /\ CharAt(CursorLine, b + 1) # "$"
    /\ \A k \in 0..(b - 1) : k # a => ~IsDelimChar(CharAt(CursorLine, k))

\* C5 (as claimed): for a position strictly inside a non-escaped, properly
\* closed $...$ span on one line, classify(D, P, false) is DOLLAR_SINGLE,
\* whatever delimiters occur on earlier lines.
C5_InsideDollarSpan ==
  (Classified /\ ~triggerInCodeBlocks /\ ~InFrontMatter(pos.line) /\ InsideClosedDollarSpan)
    => blockType = "DOLLAR_SINGLE"

\* C6 (as claimed): with one opening code fence before the cursor, no closing
\* fence, and triggerInCodeBlocks = false, classify is NONE whatever math
\* delimiters occur before or after the opener.
FenceTokens == {i \in 1..Len(stack) : stack[i].type = "CODE_MULTI"}
C6_UnterminatedFence ==
  (/\ Classified /\ ~triggerInCodeBlocks
   /\ Cardinality(FenceTokens) = 1
   /\ \A i \in FenceTokens : ~IsEscaped(GetLine(Lines, stack[i].line), stack[i].ch))
    => blockType = "NONE"

\* C7 (as claimed): after a closed pair (t, t) that lies inside an unterminated
\* block o opened on the cursor's line, classify returns the type of o (NONE
\* for a code block when triggering in code blocks is off), also when earlier
\* lines hold further delimiters of other types.
OnCursorLine(tok) == tok.line = pos.line
OnEarlierLine(tok) == tok.line < pos.line
TypesOf(toks) == [i \in 1..Len(toks) |-> toks[i].type]
C7_InnerPairDoesNotMask ==
  LET near == TypesOf(SelectSeq(stack, OnCursorLine))
      far == TypesOf(SelectSeq(stack, OnEarlierLine))
  IN (/\ Classified
      /\ Len(near) = 3 /\ near[1] = near[2] /\ near[3] # near[1]
      /\ \A i \in 1..Len(far) : far[i] # near[3])
       => blockType = IF IsCodeBlock(near[3]) /\ ~triggerInCodeBlocks THEN "NONE" ELSE near[3]

\* C8: $$ is one DOLLAR_MULTI token, never two DOLLAR_SINGLE tokens. No two
\* DOLLAR_SINGLE tokens come from adjacent characters; and when the text the
\* scan reads has no backtick and every $ in it belongs to an unescaped $$,
\* every token is DOLLAR_MULTI, there is one token per $$, and the result is
\* DOLLAR_MULTI after an odd number of $$ (inside the block) and NONE after an
\* even number (outside).
DoubleDollarStarts(l) ==
  {a \in 0..(Len(ScannedLine(l)) - 2) :
     /\ CharAt(ScannedLine(l), a) = "$" /\ CharAt(ScannedLine(l), a + 1) = "$"
     /\ CharAt(ScannedLine(l), a - 1) # "$" /\ CharAt(ScannedLine(l), a + 2) # "$"
     /\ ~IsEscaped(ScannedLine(l), a)}
OnlyDoubleDollars ==
  \A l \in ScannedLineIndexes : \A k \in 0..(Len(ScannedLine(l)) - 1) :
    /\ CharAt(ScannedLine(l), k) # Backtick
    /\ CharAt(ScannedLine(l), k) = "$" =>
         (k \in DoubleDollarStarts(l) \/ (k - 1) \in DoubleDollarStarts(l))
DoubleDollars == {<<l, a>> \in ScannedLineIndexes \X (0..MaxDocLen) : a \in DoubleDollarStarts(l)}
C8_DoubleDollarPrecedence ==
  Classified =>
    /\ \A i \in 1..Len(stack), j \in 1..Len(stack) :
         (/\ stack[i].type = "DOLLAR_SINGLE" /\ stack[j].type = "DOLLAR_SINGLE"
          /\ stack[i].line = stack[j].line) => stack[i].ch # stack[j].ch + 1
    /\ OnlyDoubleDollars =>
         /\ Len(stack) = Cardinality(DoubleDollars)
         /\ \A i \in 1..Len(stack) :
              stack[i].type = "DOLLAR_MULTI" /\ <<stack[i].line, stack[i].ch>> \in DoubleDollars
         /\ blockType = IF Cardinality(DoubleDollars) % 2 = 1 THEN "DOLLAR_MULTI" ELSE "NONE"
C8_Witness ==
  /\ Classified /\ OnlyDoubleDollars
  /\ Cardinality(DoubleDollars) = 1
  /\ \E d \in DoubleDollars : d[1] < pos.line
  /\ blockType = "DOLLAR_MULTI"

\* C9 (as claimed): a delimiter character immediately preceded by a backslash
\* is never part of a token, also when it is the first character of $$ or of
\* a code fence.
C9_EscapedNeverToken ==
  Classified =>
    \A i \in 1..Len(stack) :
      \A k \in stack[i].ch..(stack[i].ch + Len(Delim(stack[i].type)) - 1) :
        ~IsEscaped(GetLine(Lines, stack[i].line), k)

\* C27 (as claimed): of any two tokens of the stack, the one later in the
\* document (closer to the cursor) has the smaller index, whether the two are
\* on one line or on different lines.
C27_StackNearestFirst ==
  Classified =>
    \A i \in 1..Len(stack), j \in 1..Len(stack) :
      i < j => \/ stack[i].line > stack[j].line
               \/ (stack[i].line = stack[j].line /\ stack[i].ch > stack[j].ch)

\* C28: the result is DOLLAR_SINGLE only when an unmatched $ token lies on
\* the cursor's line. An unmatched $ on another line is passed over: when it
\* is the only kind of token the result is NONE, and when one token of
\* another type follows it, that token decides.
Unmatched(i) == \A j \in (i + 1)..Len(stack) : stack[j].type # stack[i].type
SkippedDollar ==
  /\ Len(stack) >= 1
  /\ stack[1].type = "DOLLAR_SINGLE" /\ stack[1].line # pos.line /\ Unmatched(1)
C28_SingleDollarOnCursorLine ==
  Classified =>
    /\ blockType = "DOLLAR_SINGLE" =>
         \E i \in 1..Len(stack) :
           stack[i].type = "DOLLAR_SINGLE" /\ stack[i].line = pos.line /\ Unmatched(i)
    /\ (SkippedDollar /\ Len(stack) = 1) => blockType = "NONE"
    /\ (SkippedDollar /\ Len(stack) = 2) =>
         blockType = IF IsCodeBlock(stack[2].type) /\ ~triggerInCodeBlocks THEN "NONE"
                     ELSE stack[2].type

\* C28 witness: an unmatched $ on an earlier line was passed over and the
\* token behind it decided the result.
C28_Witness ==
  /\ Classified /\ SkippedDollar /\ Len(stack) = 2
  /\ blockType = stack[2].type

\* C28 second case reached: a lone $ on an earlier line gave NONE.
C28_LoneDollarReached ==
  Classified /\ SkippedDollar /\ Len(stack) = 1 /\ blockType = "NONE"

\* C29: every call returns one of the five block types; the pairing loop
\* moves to a greater stack index in every iteration; and when the text the
\* scan reads holds no delimiter character without a backslash in front of
\* it, the stack is empty and the result is NONE.
OnlyEscapedDelimiters ==
  \A l \in ScannedLineIndexes : \A k \in 0..(Len(ScannedLine(l)) - 1) :
    IsDelimChar(CharAt(ScannedLine(l), k)) => (k > 0 /\ CharAt(ScannedLine(l), k - 1) = "\\")
C29_ClassifyTotal ==
  Classified =>
    /\ blockType \in BlockTypes
    /\ \A idx \in 1..Len(stack) :
         FindNextIndex(stack, idx) = 0 \/ FindNextIndex(stack, idx) > idx
    /\ OnlyEscapedDelimiters => (stack = <<>> /\ blockType = "NONE")

\* C29 witness: a call on a text with an escaped delimiter before the cursor
\* and no other delimiter returned NONE.
C29_Witness ==
  /\ Classified /\ OnlyEscapedDelimiters
  /\ \E k \in 0..(Len(ScannedLine(pos.line)) - 1) : IsDelimChar(CharAt(ScannedLine(pos.line), k))
  /\ blockType = "NONE"

\* C29 second case reached: the pairing loop ran over a stack of several
\* tokens and returned a block type other than NONE.
C29_LoopReached == Classified /\ Len(stack) >= 3 /\ blockType # "NONE"

\* ---- the scan window on long documents
\* The stack of BuildStack, put together line by line without walking the
\* lines one inside the other: the tokens of every scanned line, earlier
\* lines first and, within a line, greater columns first.
WindowMargin == 30

BuildStackByLine(lines, p) ==
  LET fm == GetFrontMatterBounds(lines)
      OfLine(l) ==
        LET line == GetLine(lines, l)
            toks == ScanLine(line, l, IF l = p.line THEN p.ch - 1 ELSE Len(line) - 1, <<>>)
        IN {toks[k] : k \in 1..Len(toks)}
      all == UNION {OfLine(l) : l \in {x \in StartLine(p)..p.line :
                                         ~(x >= fm.startLine /\ x <= fm.endLine)}}
      Before(u, t) == u.line < t.line \/ (u.line = t.line /\ u.ch > t.ch)
  IN [k \in 1..Cardinality(all) |->
        CHOOSE t \in all : Cardinality({u \in all : Before(u, t)}) = k - 1]

\* On the documents of SpecScan the two constructions give the same stack.
StackByLineAgrees == Classified => stack = BuildStackByLine(doc, pos)

\* A long note: $$ opens a block on the first line, an optional $ follows on
\* the second, every other line is empty.
LongDocument(n, second) ==
  [k \in 1..n |-> IF k = 1 THEN <<"$", "$">> ELSE IF k = 2 THEN second ELSE <<>>]

\* One call of getLatexBlockType with the cursor at the end of the document.
ClassifyAtEnd ==
  /\ lastOp = "init"
  /\ \E inCode \in BOOLEAN :
       LET p == [line |-> LastLine(doc), ch |-> Len(GetLine(doc, LastLine(doc)))] IN
       /\ pos' = p
       /\ triggerInCodeBlocks' = inCode
       /\ stack' = BuildStackByLine(doc, p)
       /\ blockType' = ResolveStack(stack', p, inCode)
       /\ examined' = LinesExamined(doc, p)
  /\ lastOp' = "getLatexBlockType"
  /\ UNCHANGED <<doc, pipeVars, acceptVars, snippetVars, dictVars, providerVars>>

InitWindow ==
  /\ \E n \in (ScanWindow - WindowMargin)..(ScanWindow + WindowMargin),
        second \in {<<>>, <<"$">>} : doc = LongDocument(n, second)
  /\ pos = [line |-> 0, ch |-> 0]
  /\ triggerInCodeBlocks = FALSE
  /\ stack = <<>>
  /\ blockType = "NONE"
  /\ examined = [walked |-> {}, frontMatter |-> {}, scanned |-> {}]
  /\ lastOp = "init"
  /\ PipelineIdle
  /\ AcceptIdle
  /\ SnippetIdle
  /\ ProvidersIdle
  /\ DictIdle

NextWindow == ClassifyAtEnd

SpecWindow == InitWindow /\ [][NextWindow]_vars

\* C30 (as claimed): a call walks at most ScanWindow lines, the cursor's
\* line included, and reads no line after the cursor's line.
C30_ScanWindowBound ==
  Classified =>
    /\ Cardinality(examined.walked) <= ScanWindow
    /\ \A l \in examined.walked \cup examined.scanned \cup examined.frontMatter : l <= pos.line

\* The second half of C30 alone: no line after the cursor's line is read.
NoLineAfterCursorRead ==
  Classified =>
    \A l \in examined.scanned \cup examined.frontMatter : l <= pos.line

\* =========================================================================
\*  Accepting a suggestion (popup.ts, main.ts, snippet_manager.ts)
\* =========================================================================
\* Optional values (T | null | undefined) are sequences of length at most one.
MaxTextLen == 2

maxLookBackDistance == 50

Max(a, b) == IF a >= b THEN a ELSE b
Count(c, s) == Cardinality({k \in 1..Len(s) : s[k] = c})

\* ---- the editor: lines, positions and offsets
RECURSIVE Join(_)
Join(lines) ==
  IF Len(lines) = 1 THEN lines[1] ELSE lines[1] \o <<"\n">> \o Join(Tail(lines))

RECURSIVE LineFrom(_, _)
LineFrom(lines, n) == IF n = 0 THEN 0 ELSE LineFrom(lines, n - 1) + Len(GetLine(lines, n - 1)) + 1

\* indexFromPos: min(line.from + max(0, ch), line.to)
indexFromPos(lines, p) ==
  LET l == Max(0, IF p.line > LastLine(lines) THEN LastLine(lines) ELSE p.line)
      from == LineFrom(lines, l)
      to == from + Len(GetLine(lines, l))
  IN IF from + Max(0, p.ch) < to THEN from + Max(0, p.ch) ELSE to

\* posFromIndex: the line holding the offset and the column within it
posFromIndex(lines, offset) ==
  LET l == CHOOSE n \in 0..LastLine(lines) :
             /\ LineFrom(lines, n) <= offset
             /\ offset <= LineFrom(lines, n) + Len(GetLine(lines, n))
  IN [line |-> l, ch |-> offset - LineFrom(lines, l)]

\* The editor clips a position to the document.
Clip(lines, p) == posFromIndex(lines, indexFromPos(lines, p))

GetRange(lines, from, to) ==
  SubSeq(Join(lines), indexFromPos(lines, from) + 1, indexFromPos(lines, to))

ReplaceRange(lines, replacement, from, to) ==
  LET flat == Join(lines)
      a == indexFromPos(lines, from)
      b == indexFromPos(lines, to)
  IN SplitLines(SubSeq(flat, 1, a) \o replacement \o SubSeq(flat, b + 1, Len(flat)))

\* characterRegex "\w" on the characters of the model: "x" is a word
\* character, " " is not.
characterRegex == {"x"}

\* matchWordBackwards: the loop from cursor.ch - 1 down to start.
RECURSIVE MatchBackFrom(_, _, _, _, _)
MatchBackFrom(lines, line, i, start, query) ==
  IF i < start THEN [query |-> query, separatorChar |-> <<>>]
  ELSE LET c == GetRange(lines, [line |-> line, ch |-> i], [line |-> line, ch |-> i + 1]) IN
    IF \E k \in 1..Len(c) : c[k] \in characterRegex
      THEN MatchBackFrom(lines, line, i - 1, start, c \o query)
      ELSE [query |-> query, separatorChar |-> <<c>>]

matchWordBackwards(lines, c, maxLookBack) ==
  MatchBackFrom(lines, c.line, c.ch - 1, Max(0, c.ch - maxLookBack), <<>>)

\* ---- the replacements the providers offer. "x" stands for a run of plain
\* text; "#" and "~" are the snippet sentinels.
Catalog ==
  << <<"x">>,                         \* a word, a callout type
     <<"x", "#", "x">>,               \* \sqrt{#}
     <<"x", "#", "x", "#", "x">>,     \* \frac{#}{#}
     <<"x", "\n", "#", "\n", "x">>,   \* \begin{align}\n#\n\end{align}
     <<"x", "~">>,                    \* publish: ~
     <<"x", "\n", "~", "\n", "x">> >> \* ---\n~\n---

Suggestion(replacement, overrideStart, overrideEnd) ==
  [replacement |-> replacement, overrideStart |-> overrideStart, overrideEnd |-> overrideEnd]

\* A provider filters its list: the offered suggestions are a sub-list of it.
Filtered(S) ==
  LET Keep(e) == e.i \in S
      kept == SelectSeq([i \in 1..Len(Catalog) |-> [i |-> i]], Keep)
  IN [k \in 1..Len(kept) |-> Suggestion(Catalog[kept[k].i], <<>>, <<>>)]

\* The callout provider's suggestion replaces from the quote prefix to the
\* end of the line.
CalloutSuggestion(lines, ctx, chOffset) ==
  Suggestion(Catalog[1],
             <<[line |-> ctx.start.line, ch |-> chOffset]>>,
             <<[line |-> ctx.end.line, ch |-> Len(GetLine(lines, ctx.end.line))]>>)

\* ---- snippet manager. A placeholder carries its marker: <<>> when the mark
\* is gone from the editor, else <<[line, from, to]>>.
RECURSIVE placeholderAtPosSkipping(_, _, _)
placeholderAtPosSkipping(phs, i, p) ==
  IF i > Len(phs) THEN [ph |-> <<>>, placeholders |-> phs]
  ELSE IF phs[i].marker = <<>>
    THEN placeholderAtPosSkipping(SubSeq(phs, 1, i - 1) \o SubSeq(phs, i + 1, Len(phs)), i + 1, p)
  ELSE LET r == phs[i].marker[1] IN
    IF p.line = r.line /\ p.ch >= r.from /\ p.ch <= r.to
      THEN [ph |-> <<phs[i]>>, placeholders |-> phs]
      ELSE placeholderAtPosSkipping(phs, i + 1, p)

RECURSIVE placeholderAtPos(_, _, _)
placeholderAtPos(phs, i, p) ==
  IF i > Len(phs) THEN [ph |-> <<>>, placeholders |-> phs]
  ELSE IF phs[i].marker = <<>>
    THEN placeholderAtPos(SubSeq(phs, 1, i - 1) \o SubSeq(phs, i + 1, Len(phs)), i, p)
  ELSE LET r == phs[i].marker[1] IN
    IF p.line = r.line /\ p.ch >= r.from /\ p.ch <= r.to
      THEN [ph |-> <<phs[i]>>, placeholders |-> phs]
      ELSE placeholderAtPos(phs, i + 1, p)

clearAllPlaceholders(phs) == IF Len(phs) = 0 THEN phs ELSE <<>>

\* ---- the update listener's reaction to a cursor change. pm is the state it
\* works on: lastCursorLine, shouldPreventNextTrigger, placeholders and the
\* popup's open flag.
handleCursorActivity(pm, c) ==
  LET at == placeholderAtPos(pm.placeholders, 1, c) IN
  [lastCursorLine |-> c.line,
   shouldPreventNextTrigger |-> pm.shouldPreventNextTrigger \/ pm.lastCursorLine # c.line,
   placeholders |-> IF at.ph = <<>> THEN clearAllPlaceholders(at.placeholders)
                    ELSE at.placeholders,
   open |-> FALSE]

\* ---- popup
getSelectedItem ==
  IF selectedIndex >= 0 /\ selectedIndex < Len(suggestions)
    THEN <<suggestions[selectedIndex + 1]>> ELSE <<>>

selectSuggestionByQuery(ed, ctx, suggestion) ==
  LET from == [line |-> ed.cursor.line, ch |-> ed.cursor.ch - Len(ctx.query)]
      to == ed.cursor
      replaced == ReplaceRange(ed.text, suggestion.replacement, from, to)
      cursorOffset == Len(suggestion.replacement) - (to.ch - from.ch)
  IN [text |-> replaced,
      cursor |-> Clip(replaced, [line |-> ed.cursor.line, ch |-> ed.cursor.ch + cursorOffset])]

\* ed is the editor state: text and cursor.
selectSuggestion(ed, ctx, suggestion) ==
  LET from == IF suggestion.overrideStart # <<>> THEN suggestion.overrideStart[1]
              ELSE [line |-> ed.cursor.line, ch |-> ed.cursor.ch - Len(ctx.query)]
      to == IF suggestion.overrideEnd # <<>> THEN suggestion.overrideEnd[1] ELSE ed.cursor
      replaced == ReplaceRange(ed.text, suggestion.replacement, from, to)
      cursorOffset == Len(suggestion.replacement) - (to.ch - from.ch)
  IN [text |-> replaced,
      cursor |-> Clip(replaced, [line |-> ed.cursor.line, ch |-> ed.cursor.ch + cursorOffset])]

postApplySelectedItem(ed, insertSpace) ==
  IF insertSpace
    THEN LET spaced == ReplaceRange(ed.text, <<" ">>, ed.cursor, ed.cursor)
         IN [text |-> spaced,
             cursor |-> Clip(spaced, [line |-> ed.cursor.line, ch |-> ed.cursor.ch + 1])]
    ELSE ed

\* onTrigger, followed by the popup showing what getSuggestions returned: a
\* filtered provider list, or the callout provider's suggestion. The popup
\* opens when there is something to show.
OnTrigger ==
  /\ lastOp = "init"
  /\ LET start == [line |-> cursor.line, ch |-> Max(0, cursor.ch - maxLookBackDistance)]
         ctx == [open |-> TRUE, start |-> start, end |-> cursor,
                 query |-> GetRange(text, start, cursor)]
     IN \E list \in {Filtered(S) : S \in SUBSET (1..Len(Catalog))}
                    \cup {<<CalloutSuggestion(text, ctx, o)>> : o \in 0..cursor.ch} :
          /\ suggestions' = list
          /\ context' = [ctx EXCEPT !.open = Len(list) > 0]
  /\ lastOp' = "onTrigger"
  /\ UNCHANGED <<providers, consulted, logged, threw, scanVars, text, cursor, selectedIndex,
                 applied, insertSpaceAfterComplete, lastCursorLine,
                 shouldPreventNextTrigger, placeholders, snippetVars, dictVars, providerVars>>

\* selectNextItem: JavaScript's % keeps the sign of the dividend.
SelectNextItem ==
  /\ context.open /\ Len(suggestions) # 0
  /\ \E step \in {1, -1} :
       LET n == Len(suggestions)
           moved == selectedIndex + step
           rem == IF moved >= 0 THEN moved % n ELSE -((-moved) % n)
       IN selectedIndex' = IF rem < 0 THEN n - 1 ELSE rem
  /\ lastOp' = "selectNextItem"
  /\ UNCHANGED <<pipeVars, scanVars, text, cursor, context, applied,
                 insertSpaceAfterComplete, lastCursorLine, shouldPreventNextTrigger,
                 placeholders, snippetVars, dictVars, providerVars>>

\* The insert command: applySelectedItem, then postApplySelectedItem. Every
\* setCursor reaches the update listener, which runs handleCursorActivity.
InsertSelectedSuggestion ==
  /\ context.open
  /\ LET selected == getSelectedItem
         ed0 == [text |-> text, cursor |-> cursor]
         pm0 == [lastCursorLine |-> lastCursorLine,
                 shouldPreventNextTrigger |-> shouldPreventNextTrigger,
                 placeholders |-> placeholders, open |-> context.open]
         ed1 == IF selected # <<>> THEN selectSuggestion(ed0, context, selected[1]) ELSE ed0
         pm1 == IF selected # <<>> THEN handleCursorActivity(pm0, ed1.cursor) ELSE pm0
         ed2 == postApplySelectedItem(ed1, insertSpaceAfterComplete)
         pm2 == IF insertSpaceAfterComplete THEN handleCursorActivity(pm1, ed2.cursor) ELSE pm1
     IN /\ text' = ed2.text
        /\ cursor' = ed2.cursor
        /\ applied' = selected
        /\ lastCursorLine' = pm2.lastCursorLine
        /\ shouldPreventNextTrigger' = pm2.shouldPreventNextTrigger
        /\ placeholders' = pm2.placeholders
        /\ context' = [context EXCEPT !.open = pm2.open]
  /\ lastOp' = "insertSelectedSuggestion"
  /\ UNCHANGED <<pipeVars, scanVars, selectedIndex, insertSpaceAfterComplete, snippetVars, dictVars, providerVars>>

InitAccept ==
  /\ \E line \in SeqsUpTo({"x", " "}, MaxTextLen) :
       /\ text = <<line>>
       /\ \E ch \in 0..Len(line) : cursor = [line |-> 0, ch |-> ch]
  /\ insertSpaceAfterComplete \in BOOLEAN
  /\ context = NoContext
  /\ selectedIndex = 0
  /\ applied = <<>>
  /\ lastCursorLine = -1
  /\ shouldPreventNextTrigger = FALSE
  /\ placeholders = <<>>
  /\ lastOp = "init"
  /\ PipelineIdle
  /\ ScanIdle
  /\ SnippetIdle
  /\ ProvidersIdle
  /\ DictIdle

NextAccept == OnTrigger \/ SelectNextItem \/ InsertSelectedSuggestion

SpecAccept == InitAccept /\ [][NextAccept]_vars

\* C10 (as claimed): after a suggestion has been accepted, the queue holds one
\* live placeholder per # of the replacement, and no ~ of the replacement is
\* left in the document.
C10_AcceptanceHandsToSnippetManager ==
  (lastOp = "insertSelectedSuggestion" /\ applied # <<>>)
    => /\ Len(placeholders) = Count("#", applied[1].replacement)
       /\ \A k \in 1..Len(placeholders) : placeholders[k].marker # <<>>
       /\ Count("~", Join(text)) = 0

\* C20 (as claimed): accepting a suggestion without override replaces the
\* word in front of the cursor, which is the query the providers were given,
\* and leaves the rest of the document as it was.
ProvidersQuery == matchWordBackwards(text, cursor, maxLookBackDistance).query
AcceptsDefaultRange ==
  /\ lastOp' = "insertSelectedSuggestion" /\ applied' # <<>>
  /\ applied'[1].overrideStart = <<>> /\ applied'[1].overrideEnd = <<>>
C20_DefaultReplaceRange ==
  [][AcceptsDefaultRange =>
       LET flat == Join(text)
           at == indexFromPos(text, cursor)
           done == selectSuggestion([text |-> text, cursor |-> cursor], context, applied'[1])
       IN /\ Join(done.text) = SubSeq(flat, 1, at - Len(ProvidersQuery))
                                 \o applied'[1].replacement
                                 \o SubSeq(flat, at + 1, Len(flat))
          /\ ~insertSpaceAfterComplete => text' = done.text]_vars

\* C21: accepting a suggestion that carries overrideStart and overrideEnd
\* replaces exactly the text between the two, whatever the typed query is;
\* the only other change is the space that insertSpaceAfterComplete adds.
AcceptsOverride ==
  /\ lastOp' = "insertSelectedSuggestion" /\ applied' # <<>>
  /\ applied'[1].overrideStart # <<>> /\ applied'[1].overrideEnd # <<>>
WithoutChar(s, k) == SubSeq(s, 1, k - 1) \o SubSeq(s, k + 1, Len(s))
C21_OverrideReplaceRange ==
  [][AcceptsOverride =>
       LET flat == Join(text)
           from == indexFromPos(text, applied'[1].overrideStart[1])
           to == indexFromPos(text, applied'[1].overrideEnd[1])
           expected == SubSeq(flat, 1, from) \o applied'[1].replacement
                         \o SubSeq(flat, to + 1, Len(flat))
           now == Join(text')
       IN IF insertSpaceAfterComplete
            THEN \E k \in 1..Len(now) : now[k] = " " /\ WithoutChar(now, k) = expected
            ELSE now = expected]_vars

\* C21 witness: a suggestion was accepted whose override range is not the
\* range of the typed query.
C21_Witness ==
  /\ lastOp = "insertSelectedSuggestion" /\ applied # <<>>
  /\ applied[1].overrideStart # <<>> /\ applied[1].overrideEnd # <<>>
  /\ Len(context.query) > 0
  /\ applied[1].overrideStart[1].ch # context.end.ch - Len(context.query)
  /\ applied[1].overrideEnd[1].ch # context.end.ch

\* =========================================================================
\*  Snippet placeholder manager (snippet_manager.ts, marker_state_field.ts)
\* =========================================================================
\* A view holds the document (lines), the markerStateField (a set of marks
\* [ref, from, to] over document offsets) and the main selection (anchor and
\* head, as offsets). A placeholder reference is [id, editor]; its range is
\* looked up in the marker field of its editor. The colour class of a mark
\* is presentation only and is left out.
MaxViewLen == 5
MaxSteps == 4

DocLen(lines) == Len(Join(lines))

\* ChangeSet.mapPos for one replaced range [from, to) -> ins characters.
MapPos(ch, p, assoc) ==
  IF p < ch.from THEN p
  ELSE IF p > ch.to THEN p - (ch.to - ch.from) + ch.ins
  ELSE IF ch.to > p THEN (IF p = ch.from \/ assoc < 0 THEN ch.from ELSE ch.from + ch.ins)
  ELSE IF ch.from = ch.to /\ assoc < 0 THEN ch.from
  ELSE ch.from + ch.ins

MapMarkExclusive(ch, mk) ==
  <<[mk EXCEPT !.from = MapPos(ch, mk.from, 1), !.to = MapPos(ch, mk.to, -1)]>>

\* RangeSet.map for a mark decoration with inclusive: true (start side -1,
\* end side 1, map mode TrackDel): <<>> when the mark is dropped.
MapMark(ch, mk) ==
  IF mk.from = mk.to
    THEN IF ch.from < mk.from /\ mk.from < ch.to THEN <<>>
         ELSE <<[mk EXCEPT !.from = MapPos(ch, mk.from, -1), !.to = MapPos(ch, mk.from, 1)]>>
    ELSE <<[mk EXCEPT !.from = MapPos(ch, mk.from, -1), !.to = MapPos(ch, mk.to, 1)]>>

MapMarks(ch, marks) == {MapMark(ch, mk)[1] : mk \in {x \in marks : MapMark(ch, x) # <<>>}}

\* A transaction that replaces [from, to) by ins: the document changes, the
\* marker field maps its marks through the change, the selection is mapped.
ApplyChange(v, from, to, ins) ==
  LET ch == [from |-> from, to |-> to, ins |-> Len(ins)]
      flat == Join(v.text)
  IN [text |-> SplitLines(SubSeq(flat, 1, from) \o ins \o SubSeq(flat, to + 1, Len(flat))),
      marks |-> MapMarks(ch, v.marks),
      anchor |-> MapPos(ch, v.anchor, IF v.anchor = v.head THEN -1 ELSE IF v.anchor < v.head THEN 1 ELSE -1),
      head |-> MapPos(ch, v.head, IF v.anchor = v.head THEN -1 ELSE IF v.head < v.anchor THEN 1 ELSE -1)]

\* PlaceholderReference.marker: the first mark whose reference is this one.
Marker(vs, ref) ==
  LET found == {mk \in vs[ref.editor].marks : mk.ref = ref.id} IN
  IF found = {} THEN <<>> ELSE <<CHOOSE mk \in found : TRUE>>

\* The queue with every reference's current range resolved to line and
\* column, which is what placeholderAtPos compares the position with.
WithMarkers(vs, phs) ==
  [k \in 1..Len(phs) |->
    LET mk == Marker(vs, phs[k])
        lines == vs[phs[k].editor].text
    IN [id |-> phs[k].id, editor |-> phs[k].editor,
        marker |-> IF mk = <<>> THEN <<>>
                   ELSE <<[line |-> posFromIndex(lines, mk[1].from).line,
                           from |-> posFromIndex(lines, mk[1].from).ch,
                           to |-> posFromIndex(lines, mk[1].to).ch]>>]]

References(phsM) == [k \in 1..Len(phsM) |-> [id |-> phsM[k].id, editor |-> phsM[k].editor]]

\* PlaceholderReference.removeFromEditor
RemoveFromEditor(vs, ref) ==
  [vs EXCEPT ![ref.editor].marks = {mk \in @ : mk.ref # ref.id}]

\* clearAllPlaceholders on the manager state: the clearMarks effect goes to
\* the view of the first placeholder's editor.
ClearAll(sm) ==
  IF Len(sm.placeholders) = 0 THEN sm
  ELSE [sm EXCEPT !.views = [sm.views EXCEPT ![sm.placeholders[1].editor].marks = {}],
                  !.placeholders = clearAllPlaceholders(sm.placeholders)]

\* The update listener after a transaction of editor e that sets the
\* selection: handleCursorActivity at the head of the selection.
CursorActivity(sm, e) ==
  LET c == posFromIndex(sm.views[e].text, sm.views[e].head)
      phsM == WithMarkers(sm.views, sm.placeholders)
      at == placeholderAtPos(phsM, 1, c)
      after == handleCursorActivity(
                 [lastCursorLine |-> sm.lastCursorLine,
                  shouldPreventNextTrigger |-> sm.shouldPreventNextTrigger,
                  placeholders |-> phsM, open |-> FALSE], c)
      pruned == [sm EXCEPT !.placeholders = References(at.placeholders)]
      cleared == IF at.ph = <<>> THEN ClearAll(pruned) ELSE pruned
  IN [cleared EXCEPT !.lastCursorLine = after.lastCursorLine,
                     !.shouldPreventNextTrigger = after.shouldPreventNextTrigger]

\* selectMarker: select the marked character; the selection change reaches
\* the update listener.
SetSelection(sm, e, anchor, head) ==
  CursorActivity([sm EXCEPT !.views[e].anchor = anchor, !.views[e].head = head], e)

selectMarker(sm, ref) ==
  LET mk == Marker(sm.views, ref) IN
  IF mk = <<>> THEN sm
  ELSE LET lines == sm.views[ref.editor].text
           from == posFromIndex(lines, mk[1].from)
       IN SetSelection(sm, ref.editor, indexFromPos(lines, from),
                       indexFromPos(lines, [line |-> from.line, ch |-> from.ch + 1]))

\* new PlaceholderReference(editor): an identity no live reference has.
UsedIds(sm) ==
  {sm.placeholders[k].id : k \in 1..Len(sm.placeholders)}
    \cup UNION {{mk.ref : mk \in sm.views[e].marks} : e \in Editors}
FreshId(sm) == Min({n \in 1..(Cardinality(UsedIds(sm)) + 1) : n \notin UsedIds(sm)})

\* One character of the snippet text, at line lineIndex and column i.
Push(q, x) == q \o <<x>>
Unshift(q, x) == <<x>> \o q

\* The range of the mark put on the sentinel found at offset from.
MarkRangeEmpty(from) == [from |-> from, to |-> from]
MarkRange(from) == [from |-> from, to |-> from + 1]

HandleSentinelKeeping(sm, c, start, e, lineIndex, i) ==
  IF c = "#"
    THEN LET at == [line |-> start.line + lineIndex,
                    ch |-> (IF lineIndex = 0 THEN start.ch ELSE 0) + i]
             from == indexFromPos(sm.views[e].text, at)
         IN [sm EXCEPT !.views[e].marks =
                         @ \cup {[ref |-> FreshId(sm), from |-> from, to |-> from + 1]},
                       !.placeholders = Unshift(@, [id |-> FreshId(sm), editor |-> e])]
    ELSE sm

HandleSentinel(sm, c, start, e, lineIndex, i) ==
  LET lineBaseOffset == IF lineIndex = 0 THEN start.ch ELSE 0
      at == [line |-> start.line + lineIndex, ch |-> lineBaseOffset + i]
      lines == sm.views[e].text
  IN IF c = "~"
       THEN [sm EXCEPT !.views[e] =
               ApplyChange(@, indexFromPos(lines, at),
                           indexFromPos(lines, [at EXCEPT !.ch = at.ch + 1]), <<>>)]
     ELSE IF c = "#"
       THEN LET ref == [id |-> FreshId(sm), editor |-> e]
                from == indexFromPos(lines, at)
            IN [sm EXCEPT !.views[e].marks =
                            @ \cup {[ref |-> ref.id, from |-> MarkRange(from).from,
                                     to |-> MarkRange(from).to]},
                          !.placeholders = Unshift(@, ref)]
     ELSE sm

\* The loops of handleSnippet: lines bottom to top, characters right to left.
RECURSIVE HandleLines(_, _, _, _, _, _)
HandleLines(sm, lines, start, e, lineIndex, i) ==
  IF lineIndex < 0 THEN sm
  ELSE IF i < 0
    THEN IF lineIndex = 0 THEN sm
         ELSE HandleLines(sm, lines, start, e, lineIndex - 1, Len(lines[lineIndex]) - 1)
  ELSE HandleLines(HandleSentinel(sm, lines[lineIndex + 1][i + 1], start, e, lineIndex, i),
                   lines, start, e, lineIndex, i - 1)

handleSnippet(sm, value, start, e) ==
  LET lines == SplitLines(value)
      done == HandleLines(sm, lines, start, e, Len(lines) - 1, Len(lines[Len(lines)]) - 1)
  IN IF Len(done.placeholders) > 0 THEN selectMarker(done, done.placeholders[1]) ELSE done

\* consumeAndGotoNextMarker: the manager state afterwards and the result.
consumeAndGotoNextMarker(sm) ==
  LET shifted == IF Len(sm.placeholders) > 0
                   THEN [sm EXCEPT !.views = RemoveFromEditor(sm.views, sm.placeholders[1]),
                                   !.placeholders = Tail(sm.placeholders)]
                   ELSE sm
  IN IF Len(shifted.placeholders) < 1 THEN [sm |-> shifted, result |-> FALSE]
     ELSE IF Marker(shifted.views, shifted.placeholders[1]) = <<>>
       THEN [sm |-> shifted, result |-> FALSE]
     ELSE [sm |-> selectMarker(shifted, shifted.placeholders[1]), result |-> TRUE]

\* The number of queued placeholders whose marker resolves.
Live(sm) ==
  Cardinality({k \in 1..Len(sm.placeholders) : Marker(sm.views, sm.placeholders[k]) # <<>>})

\* One call placeholderAtPos(p): the queue it found, what it returned, and
\* the queue it left.
Lookup(sm, p) ==
  LET phsM == WithMarkers(sm.views, sm.placeholders)
      at == placeholderAtPos(phsM, 1, p)
  IN [pos |-> p, before |-> phsM, found |-> at.ph, after |-> at.placeholders]

\* The live placeholders of editor e whose range holds position p of e.
Holding(sm, e, p) ==
  LET phsM == WithMarkers(sm.views, sm.placeholders) IN
  {k \in 1..Len(phsM) :
     /\ phsM[k].editor = e
     /\ phsM[k].marker # <<>>
     /\ LET mk == Marker(sm.views, sm.placeholders[k])[1]
            at == indexFromPos(sm.views[e].text, p)
        IN mk.from <= at /\ at <= mk.to}

LiveReferences(sm) ==
  {sm.placeholders[k] : k \in {j \in 1..Len(sm.placeholders) :
                                 Marker(sm.views, sm.placeholders[j]) # <<>>}}

\* ---- the manager state the operations work on, and its write-back
Manager ==
  [views |-> views, placeholders |-> placeholders,
   lastCursorLine |-> lastCursorLine, shouldPreventNextTrigger |-> shouldPreventNextTrigger]

Becomes(sm) ==
  /\ views' = sm.views
  /\ placeholders' = sm.placeholders
  /\ lastCursorLine' = sm.lastCursorLine
  /\ shouldPreventNextTrigger' = sm.shouldPreventNextTrigger

Cursor(v) == posFromIndex(v.text, v.head)

\* Snippet texts: foo#bar#baz, a final cursor mark before a tab stop, and a
\* tab stop and a final cursor mark on two lines.
Snippets ==
  { <<"x", "#", "x", "#", "x">>, <<"~", "#">>, <<"#", "\n", "~">> }

SnippetFrame ==
  /\ steps' = steps + 1
  /\ UNCHANGED <<pipeVars, scanVars, text, cursor, context, selectedIndex, applied,
                 insertSpaceAfterComplete, dictVars, providerVars>>

\* The snippet text is put into the document at start and handed to
\* handleSnippet with that start.
InsertSnippet ==
  /\ lastOp # "onunload" /\ steps < MaxSteps
  /\ \E e \in Editors, value \in Snippets :
       /\ DocLen(views[e].text) + Len(value) <= MaxViewLen
       /\ \E s \in 0..DocLen(views[e].text) :
            LET start == posFromIndex(views[e].text, s)
                inserted == [Manager EXCEPT !.views[e] = ApplyChange(@, s, s, value)]
            IN /\ Becomes(handleSnippet(inserted, value, start, e))
               /\ ret' = [op |-> "handleSnippet", editor |-> e, value |-> value, start |-> s,
                          before |-> Len(placeholders),
                          hashes |-> Count("#", Join(views[e].text)),
                          doc |-> Join(views[e].text)]
  /\ lastOp' = "handleSnippet"
  /\ SnippetFrame

\* The command "Jump to next snippet placeholder" in editor e.
JumpToNextPlaceholder ==
  /\ lastOp # "onunload" /\ steps < MaxSteps
  /\ \E e \in Editors :
       LET phsM == WithMarkers(views, placeholders)
           at == placeholderAtPos(phsM, 1, Cursor(views[e]))
           looked == [Manager EXCEPT !.placeholders = References(at.placeholders)]
       IN IF at.ph = <<>>
            THEN /\ Becomes(looked)
                 /\ ret' = [op |-> "jump", editor |-> e, handled |-> FALSE,
                            lookup |-> Lookup(Manager, Cursor(views[e]))]
            ELSE LET placeholder == at.ph[1]
                     placeholderEnd == posFromIndex(views[placeholder.editor].text,
                                                    Marker(views, placeholder)[1].to)
                     adv == consumeAndGotoNextMarker(looked)
                     lines == adv.sm.views[e].text
                     past == indexFromPos(lines, [placeholderEnd EXCEPT !.ch = placeholderEnd.ch + 1])
                 IN /\ Becomes(IF adv.result THEN adv.sm
                               ELSE SetSelection(adv.sm, e, past, past))
                    /\ ret' = [op |-> "jump", editor |-> e, handled |-> TRUE,
                               at |-> [id |-> placeholder.id, editor |-> placeholder.editor],
                               front |-> looked.placeholders[1],
                               result |-> adv.result,
                               left |-> Len(adv.sm.placeholders),
                               live |-> Live(adv.sm),
                               lookup |-> Lookup(Manager, Cursor(views[e]))]
  /\ lastOp' = "jump"
  /\ SnippetFrame

\* The user moves the cursor of editor e.
MoveCursor ==
  /\ lastOp # "onunload" /\ steps < MaxSteps
  /\ \E e \in Editors :
       \E p \in 0..DocLen(views[e].text) :
         LET at == posFromIndex(views[e].text, p) IN
         /\ Becomes(SetSelection(Manager, e, p, p))
         /\ ret' = [op |-> "cursor", editor |-> e, lookup |-> Lookup(Manager, at),
                    outside |-> Holding(Manager, e, at) = {},
                    liveBefore |-> LiveReferences(Manager)]
  /\ lastOp' = "handleCursorActivity"
  /\ SnippetFrame

\* The user types a character over the selection of editor e, or deletes
\* the selection (the character before the cursor when it is empty); the
\* cursor ends behind the typed text.
EditDocument ==
  /\ lastOp # "onunload" /\ steps < MaxSteps
  /\ \E e \in Editors, ins \in {<<>>, <<"x">>} :
       LET v == views[e]
           to == Max(v.anchor, v.head)
           low == IF v.anchor < v.head THEN v.anchor ELSE v.head
           from == IF low = to /\ ins = <<>> THEN low - 1 ELSE low
       IN /\ from >= 0
          /\ DocLen(v.text) - (to - from) + Len(ins) <= MaxViewLen
          /\ LET changed == [Manager EXCEPT !.views[e] = ApplyChange(@, from, to, ins)]
             IN Becomes(SetSelection(changed, e, from + Len(ins), from + Len(ins)))
  /\ ret' = [op |-> "edit"]
  /\ lastOp' = "edit"
  /\ SnippetFrame

\* Another file is opened in editor e: the editor gets a new state, so the
\* document is replaced and markerStateField is created anew (no marks).
OpenFile ==
  /\ lastOp # "onunload" /\ steps < MaxSteps
  /\ \E e \in Editors :
       views' = [views EXCEPT ![e] = [EmptyView EXCEPT !.text = <<<<"x", "x">>>>]]
  /\ ret' = [op |-> "open"]
  /\ lastOp' = "open"
  /\ UNCHANGED <<placeholders, lastCursorLine, shouldPreventNextTrigger>>
  /\ SnippetFrame

\* onunload: clearAllPlaceholders.
Unload ==
  /\ lastOp # "onunload" /\ steps < MaxSteps
  /\ Becomes(ClearAll(Manager))
  /\ ret' = [op |-> "onunload", before |-> Len(placeholders),
             owners |-> {placeholders[k].editor : k \in 1..Len(placeholders)}]
  /\ lastOp' = "onunload"
  /\ SnippetFrame

InitSnippet ==
  /\ SnippetIdle
  /\ ProvidersIdle
  /\ DictIdle
  /\ text = <<<<>>>>
  /\ cursor = [line |-> 0, ch |-> 0]
  /\ context = NoContext
  /\ selectedIndex = 0
  /\ applied = <<>>
  /\ insertSpaceAfterComplete = TRUE
  /\ lastCursorLine = -1
  /\ shouldPreventNextTrigger = FALSE
  /\ placeholders = <<>>
  /\ lastOp = "init"
  /\ PipelineIdle
  /\ ScanIdle

NextSnippet ==
  InsertSnippet \/ JumpToNextPlaceholder \/ MoveCursor \/ EditDocument \/ OpenFile \/ Unload

SpecSnippet == InitSnippet /\ [][NextSnippet]_vars

\* ---- claims about the snippet placeholder manager
Foo == <<"x", "#", "x", "#", "x">>
MarkOf(k) == Marker(views, placeholders[k])[1]
AfterHandleSnippet == lastOp = "handleSnippet"
Registered == Count("#", ret.value)

\* C11, after handleSnippet: one placeholder per # of the text is put in
\* front of the queue, in reading order (for foo#bar#baz: two, the leftmost #
\* first), and the front one is selected.
C11_AfterInsert ==
  (AfterHandleSnippet /\ Registered > 0) =>
    /\ Len(placeholders) = ret.before + Registered
    /\ \A k \in 1..Registered :
         /\ placeholders[k].editor = ret.editor
         /\ Marker(views, placeholders[k]) # <<>>
    /\ \A k \in 1..(Registered - 1) : MarkOf(k).from < MarkOf(k + 1).from
    /\ ret.value = Foo =>
         /\ Registered = 2
         /\ MarkOf(1).from = ret.start + 1
         /\ MarkOf(2).from = ret.start + 3
    /\ views[ret.editor].anchor = MarkOf(1).from
    /\ views[ret.editor].head = MarkOf(1).to

\* C11, the advances: after foo#bar#baz has been handled on an empty queue,
\* the first jump removes the leftmost placeholder, selects the later one and
\* returns true; the jump after it removes the later one and returns false.
JumpsIn(e) == lastOp' = "jump" /\ ret'.editor = e
C11_FirstAdvance ==
  (AfterHandleSnippet /\ ret.value = Foo /\ ret.before = 0 /\ JumpsIn(ret.editor)) =>
    /\ ret'.handled /\ ret'.result
    /\ placeholders' = Tail(placeholders)
    /\ Marker(views', placeholders[1]) = <<>>
    /\ views'[ret.editor].anchor = MarkOf(2).from
    /\ views'[ret.editor].head = MarkOf(2).to
C11_SecondAdvance ==
  (lastOp = "jump" /\ ret.handled /\ ret.result /\ Len(placeholders) = 1
     /\ placeholders[1].editor = ret.editor /\ JumpsIn(ret.editor)) =>
    /\ ret'.handled /\ ~ret'.result
    /\ placeholders' = <<>>
    /\ views'[ret.editor].marks = {}

C11_PlaceholderOrdering ==
  /\ []C11_AfterInsert
  /\ [][C11_FirstAdvance /\ C11_SecondAdvance]_vars

C11_Witness ==
  /\ lastOp = "jump" /\ ret.handled /\ ~ret.result /\ steps = 3
  /\ placeholders = <<>>
  /\ Join(views[ret.editor].text) = Foo

\* C12 (as claimed): handleSnippet deletes every # of the snippet text from
\* the document and registers a one-character marker at its position.
HashesIn(e) == Count("#", Join(views[e].text))
C12_SentinelDeleted ==
  (AfterHandleSnippet /\ Registered > 0) =>
    /\ HashesIn(ret.editor) = ret.hashes
    /\ \A k \in 1..Registered : MarkOf(k).to = MarkOf(k).from + 1

\* C12 (amended): handleSnippet leaves every # of the snippet text in the
\* document and registers a marker that covers exactly that character.
C12_SentinelMarked ==
  (AfterHandleSnippet /\ Registered > 0) =>
    /\ HashesIn(ret.editor) = ret.hashes + Registered
    /\ Len(placeholders) >= Registered
    /\ \A k \in 1..Registered :
         /\ Marker(views, placeholders[k]) # <<>>
         /\ MarkOf(k).to = MarkOf(k).from + 1
         /\ Join(views[ret.editor].text)[MarkOf(k).from + 1] = "#"

C12_Witness ==
  /\ AfterHandleSnippet /\ Registered = 2
  /\ HashesIn(ret.editor) = ret.hashes + 2
  /\ \A k \in 1..2 : Join(views[ret.editor].text)[MarkOf(k).from + 1] = "#"

\* C13 (as claimed): when the jump command has called
\* consumeAndGotoNextMarker, the call returned true whenever a placeholder
\* with a resolvable marker was left in the queue, and it returned false only
\* when the queue was left empty.
Advanced == lastOp = "jump" /\ ret.handled
C13_AdvanceReturnValue ==
  Advanced =>
    /\ ret.live > 0 => ret.result
    /\ ~ret.result => ret.left = 0

\* C14 (as claimed): after clearAllPlaceholders (here: on unload) the queue
\* is empty and no marker is left in any editor that owned a queued
\* placeholder.
C14_ClearAllRemovesEveryMarker ==
  lastOp = "onunload" =>
    /\ placeholders = <<>>
    /\ \A e \in ret.owners : views[e].marks = {}

\* C16 (as claimed): a cursor move to a position outside every live
\* placeholder's range leaves the queue empty and no marker; a move to a
\* position inside a live placeholder's range removes no live placeholder;
\* unload empties the queue and removes all markers.
NoMarks == \A e \in Editors : views[e].marks = {}
C16_CursorLeaveClears ==
  /\ lastOp = "handleCursorActivity" =>
       /\ ret.outside => (placeholders = <<>> /\ NoMarks)
       /\ ~ret.outside => ret.liveBefore \subseteq LiveReferences(Manager)
  /\ lastOp = "onunload" => (placeholders = <<>> /\ NoMarks)

\* C15 (as claimed): every live placeholder's marker range has length
\* exactly 1 in every reachable state.
QueuedMarks ==
  {Marker(views, placeholders[k])[1] :
     k \in {j \in 1..Len(placeholders) : Marker(views, placeholders[j]) # <<>>}}
MarksInDocument ==
  \A e \in Editors : \A mk \in views[e].marks :
    0 <= mk.from /\ mk.from <= mk.to /\ mk.to <= DocLen(views[e].text)
RegisteredWithLengthOne ==
  lastOp' = "handleSnippet" =>
    \A e \in Editors : \A mk \in views'[e].marks :
      mk.ref \notin {old.ref : old \in views[e].marks} => mk.to - mk.from = 1
OnlyEditsResize ==
  lastOp' \in {"jump", "handleCursorActivity", "onunload"} =>
    \A e \in Editors : views'[e].marks \subseteq views[e].marks
Resolves(ph) == ph.marker # <<>>
LookedUp == lastOp \in {"jump", "handleCursorActivity"}
LexLeq(a, b) == a.line < b.line \/ (a.line = b.line /\ a.ch <= b.ch)
FoundRangeHolds ==
  LET found == ret.lookup.found[1]
      mk == Marker(views, [id |-> found.id, editor |-> found.editor])
      lines == views[found.editor].text
  IN /\ mk # <<>>
     /\ LexLeq(posFromIndex(lines, mk[1].from), ret.lookup.pos)
     /\ LexLeq(ret.lookup.pos, posFromIndex(lines, mk[1].to))
     /\ found.editor = ret.editor =>
          /\ mk[1].from <= indexFromPos(lines, ret.lookup.pos)
          /\ indexFromPos(lines, ret.lookup.pos) <= mk[1].to
C17_LookupPrunesUnresolvable ==
  LookedUp =>
    LET before == ret.lookup.before
        after == ret.lookup.after
        found == ret.lookup.found
    IN /\ SelectSeq(after, Resolves) = SelectSeq(before, Resolves)
       /\ Len(SelectSeq(after, Resolves)) + (Len(before) - Len(after)) <= Len(before)
       /\ found = <<>> => \A k \in 1..Len(after) : Resolves(after[k])
       /\ found # <<>> =>
            \E k \in 1..Len(after) :
              /\ after[k] = found[1]
              /\ Resolves(found[1])
              /\ \A j \in 1..(k - 1) : Resolves(after[j])
       /\ (lastOp = "handleCursorActivity" /\ found # <<>>) => FoundRangeHolds

\* C17 witness: a lookup found a queue with an unresolvable entry behind a
\* live one, pruned the former and kept the latter.
C17_Witness ==
  /\ LookedUp
  /\ Len(ret.lookup.after) < Len(ret.lookup.before)
  /\ Len(ret.lookup.after) > 0

\* C17 second case reached: a lookup returned a placeholder of its own editor.
C17_FoundReached ==
  /\ lastOp = "handleCursorActivity"
  /\ ret.lookup.found # <<>>
  /\ ret.lookup.found[1].editor = ret.editor

\* C19: handleSnippet deletes every ~ of the snippet text and nothing else,
\* registers no placeholder for it, and every marker it registers sits on its
\* own # of the text once all ~ are deleted.
NotTilde(c) == c # "~"
Stripped == SelectSeq(ret.value, NotTilde)
C19_TildeDeleted ==
  AfterHandleSnippet =>
    LET now == Join(views[ret.editor].text) IN
    /\ now = SubSeq(ret.doc, 1, ret.start) \o Stripped
               \o SubSeq(ret.doc, ret.start + 1, Len(ret.doc))
    /\ Len(placeholders) = ret.before + Registered
    /\ \A k \in 1..Registered :
         /\ Marker(views, placeholders[k]) # <<>>
         /\ MarkOf(k).from >= ret.start
         /\ MarkOf(k).from < ret.start + Len(Stripped)
         /\ Stripped[MarkOf(k).from - ret.start + 1] = "#"
         /\ Count("#", SubSeq(Stripped, 1, MarkOf(k).from - ret.start)) = k - 1

\* C19 witness: a text with a ~ and a # was handled in a document that was
\* not empty, and the ~ is gone.
C19_Witness ==
  /\ AfterHandleSnippet
  /\ Count("~", ret.value) > 0 /\ Registered > 0 /\ Len(ret.doc) > 0
  /\ Count("~", Join(views[ret.editor].text)) = 0

\* C18 (as claimed): two calls of clearAllPlaceholders in succession (a
\* cursor move that leaves every placeholder, then unload) each leave an empty
\* queue and no markers.
ClearedByCursorMove == lastOp = "handleCursorActivity" /\ ret.lookup.found = <<>>
C18_ClearAllIdempotent ==
  [][(ClearedByCursorMove /\ lastOp' = "onunload") =>
       /\ placeholders = <<>> /\ NoMarks
       /\ placeholders' = <<>> /\ \A e \in Editors : views'[e].marks = {}]_vars

\* C32: the queue runs from next-to-visit to last-to-visit. Step by step:
\* the references a step adds are put in front of the queue by handleSnippet,
\* in document reading order; the references it keeps stay in the order they
\* had, in the queue and in the document.
QueueSet(q) == {q[k] : k \in 1..Len(q)}
IsSubsequenceOf(q2, q) == q2 = SelectSeq(q, LAMBDA r : r \in QueueSet(q2))
AddedCount == Cardinality(QueueSet(placeholders') \ QueueSet(placeholders))

AddedInFrontInReadingOrder ==
  LET n == AddedCount IN
  /\ n > 0 => lastOp' = "handleSnippet"
  /\ n <= Len(placeholders')
  /\ \A k \in 1..n : placeholders'[k] \notin QueueSet(placeholders)
  /\ \A k \in 1..n : Marker(views', placeholders'[k]) # <<>>
  /\ \A j, k \in 1..n :
       j < k => /\ placeholders'[j].editor = placeholders'[k].editor
                /\ Marker(views', placeholders'[j])[1].from
                     < Marker(views', placeholders'[k])[1].from
  /\ IsSubsequenceOf(SubSeq(placeholders', n + 1, Len(placeholders')), placeholders)

KeptInDocumentOrder ==
  \A a, b \in QueueSet(placeholders) \cap QueueSet(placeholders') :
    ( /\ a.editor = b.editor
      /\ Marker(views, a) # <<>> /\ Marker(views, b) # <<>>
      /\ Marker(views', a) # <<>> /\ Marker(views', b) # <<>>
      /\ Marker(views, a)[1].from < Marker(views, b)[1].from )
    => Marker(views', a)[1].from <= Marker(views', b)[1].from

C32_QueueOrder == [][AddedInFrontInReadingOrder /\ KeptInDocumentOrder]_vars

\* C32 witness: a second insertion has put its placeholder in front of the
\* placeholder an earlier insertion left in the queue.
C32_Witness ==
  /\ AfterHandleSnippet
  /\ ret.before > 0
  /\ Registered > 0
  /\ Len(placeholders) = ret.before + Registered

\* C33: when the jump command runs with the cursor inside placeholder P, the
\* placeholder consumeAndGotoNextMarker removes (the front of the queue) is P.
C33_AdvanceRemovesPlaceholderAtCursor ==
  (lastOp = "jump" /\ ret.handled) => ret.front = ret.at

\* =========================================================================
\*  Prefix dictionary matcher (dictionary_provider.ts) and its tables
\* =========================================================================
\* A word is a sequence of characters. wordMap is the Map as a sequence of
\* buckets [key, words] in insertion order, which is the order entries()
\* yields them in. A suggestion made by Suggestion.fromString(s) has s as
\* its displayName and as its replacement.
MaxWords == 2
MaxTriggerLength == 2

\* String.toLowerCase, String.toUpperCase and removeDiacritics, per character.
LowerChar(c) ==
  IF c = "H" THEN "h" ELSE IF c = "E" THEN "e" ELSE IF c = "É" THEN "é"
  ELSE IF c = "X" THEN "x" ELSE c
UpperChar(c) ==
  IF c = "h" THEN "H" ELSE IF c = "e" THEN "E" ELSE IF c = "é" THEN "É"
  ELSE IF c = "x" THEN "X" ELSE c
BaseChar(c) == IF c = "é" THEN "e" ELSE IF c = "É" THEN "E" ELSE c

toLowerCase(s) == [k \in 1..Len(s) |-> LowerChar(s[k])]
toUpperCase(s) == [k \in 1..Len(s) |-> UpperChar(s[k])]
removeDiacritics(s) == [k \in 1..Len(s) |-> BaseChar(s[k])]
maybeLowerCase(s, lower) == IF lower THEN toLowerCase(s) ELSE s
startsWith(s, prefix) == Len(prefix) <= Len(s) /\ SubSeq(s, 1, Len(prefix)) = prefix
substringWhole(s, n) == s
substring(s, n) == SubSeq(s, n + 1, Len(s))

WordInsertionModes == {"MATCH_CASE_REPLACE", "IGNORE_CASE_REPLACE", "APPEND"}

fromString(s) == [displayName |-> s, replacement |-> s]

\* Map.get(key) ?? []
Get(wm, key) ==
  LET at == {k \in 1..Len(wm) : wm[k].key = key} IN
  IF at = {} THEN <<>> ELSE wm[CHOOSE k \in at : TRUE].words

addWordFoldedKey(wm, bl, word) ==
  IF word = <<>> \/ word \in bl THEN wm
  ELSE LET first == LowerChar(word[1])
           withBucket == IF \E k \in 1..Len(wm) : wm[k].key = first THEN wm
                         ELSE Append(wm, [key |-> first, words |-> <<>>])
       IN [k \in 1..Len(withBucket) |->
             IF withBucket[k].key = first /\ \A j \in 1..Len(withBucket[k].words) :
                                               withBucket[k].words[j] # word
               THEN [withBucket[k] EXCEPT !.words = Append(@, word)]
               ELSE withBucket[k]]

\* ScannerSuggestionProvider.addWord: the bucket is a Set, a word already in
\* it is not added again.
addWord(wm, bl, word) ==
  IF word = <<>> \/ word \in bl THEN wm
  ELSE LET first == word[1]
           withBucket == IF \E k \in 1..Len(wm) : wm[k].key = first THEN wm
                         ELSE Append(wm, [key |-> first, words |-> <<>>])
       IN [k \in 1..Len(withBucket) |->
             IF withBucket[k].key = first /\ \A j \in 1..Len(withBucket[k].words) :
                                               withBucket[k].words[j] # word
               THEN [withBucket[k] EXCEPT !.words = Append(@, word)]
               ELSE withBucket[k]]

\* filterMapIntoArray over the lists to check, one after the other.
RECURSIVE Concat(_)
Concat(lists) == IF lists = <<>> THEN <<>> ELSE Head(lists) \o Concat(Tail(lists))

\* Array.prototype.sort with the comparator a.displayName.length -
\* b.displayName.length: stable, ascending.
RECURSIVE InsertByLengthStrict(_, _)
InsertByLengthStrict(sorted, x) ==
  IF sorted = <<>> THEN <<x>>
  ELSE IF Len(sorted[Len(sorted)].displayName) < Len(x.displayName) THEN Append(sorted, x)
  ELSE Append(InsertByLengthStrict(SubSeq(sorted, 1, Len(sorted) - 1), x), sorted[Len(sorted)])

RECURSIVE InsertByLength(_, _)
InsertByLength(sorted, x) ==
  IF sorted = <<>> THEN <<x>>
  ELSE IF Len(sorted[Len(sorted)].displayName) <= Len(x.displayName) THEN Append(sorted, x)
  ELSE Append(InsertByLength(SubSeq(sorted, 1, Len(sorted) - 1), x), sorted[Len(sorted)])

RECURSIVE SortByLength(_)
SortByLength(s) ==
  IF s = <<>> THEN <<>>
  ELSE InsertByLength(SortByLength(SubSeq(s, 1, Len(s) - 1)), s[Len(s)])

\* The candidates in the order the scan finds them, before the sort.
Discovered(wm, query, settings) ==
  LET ignoreCase == settings.wordInsertionMode # "MATCH_CASE_REPLACE"
      lowered == maybeLowerCase(query, ignoreCase)
      folded == IF settings.ignoreDiacriticsWhenFiltering THEN removeDiacritics(lowered)
                ELSE lowered
      firstChar == folded[1]
      direct == IF ignoreCase THEN <<Get(wm, firstChar), Get(wm, UpperChar(firstChar))>>
                ELSE <<Get(wm, firstChar)>>
      Folds(b) == BaseChar(IF ignoreCase THEN LowerChar(b.key) ELSE b.key) = firstChar
      byDiacritics == IF settings.ignoreDiacriticsWhenFiltering
                        THEN LET hit == SelectSeq(wm, Folds)
                             IN [k \in 1..Len(hit) |-> hit[k].words]
                        ELSE <<>>
      Matches(s) ==
        LET match == IF settings.ignoreDiacriticsWhenFiltering
                       THEN removeDiacritics(maybeLowerCase(s, ignoreCase))
                       ELSE maybeLowerCase(s, ignoreCase)
        IN startsWith(match, folded)
      kept == SelectSeq(Concat(direct \o byDiacritics), Matches)
  IN [k \in 1..Len(kept) |->
        IF settings.wordInsertionMode = "APPEND"
          THEN fromString(query \o substring(kept[k], Len(folded)))
          ELSE fromString(kept[k])]

getSuggestionsUnguarded(wm, query, settings) ==
  IF query = <<>> THEN <<>> ELSE SortByLength(Discovered(wm, query, settings))

\* DictionaryProvider.getSuggestions
getSuggestions(wm, query, settings) ==
  IF ~settings.enabled \/ query = <<>> \/ Len(query) < settings.minWordTriggerLength
    THEN <<>>
    ELSE SortByLength(Discovered(wm, query, settings))

\* ---- the words and queries of the model
Words ==
  { <<"h">>, <<"h", "e">>, <<"H", "e">>, <<"h", "é">>, <<"e", "h">>, <<"é", "h">>,
    <<"h", "e", "h">>, <<"1", "h">> }
Prefixes(w) == {SubSeq(w, 1, n) : n \in 1..Len(w)}
Queries == {<<>>} \cup UNION {Prefixes(w) : w \in Words}
Settings ==
  [enabled : BOOLEAN, wordInsertionMode : WordInsertionModes,
   ignoreDiacriticsWhenFiltering : BOOLEAN, minWordTriggerLength : 0..MaxTriggerLength,
   minWordLength : {<<>>}, autoTrigger : {TRUE}]

WordCount(wm) == Len(Concat([k \in 1..Len(wm) |-> wm[k].words]))
Stored(wm) ==
  LET all == Concat([k \in 1..Len(wm) |-> wm[k].words]) IN {all[k] : k \in 1..Len(all)}

DictFrame ==
  UNCHANGED <<pipeVars, scanVars, acceptVars, snippetVars, providerVars, blacklist, pluginSettings,
              vault, loads>>

\* A scanned or loaded word is added to the scanner's table.
AddWord ==
  /\ WordCount(wordMap) < MaxWords
  /\ \E word \in Words :
       /\ wordMap' = addWord(wordMap, blacklist, word)
       /\ asked' = [op |-> "addWord", word |-> word]
  /\ lastOp' = "addWord"
  /\ DictFrame

\* The pipeline asks the provider for suggestions.
Ask ==
  /\ \E query \in Queries :
       asked' = [op |-> "getSuggestions", query |-> query,
                 result |-> getSuggestions(wordMap, query, pluginSettings)]
  /\ lastOp' = "getSuggestions"
  /\ UNCHANGED wordMap
  /\ DictFrame

InitDict ==
  /\ wordMap = <<>>
  /\ blacklist \in {{}, {<<"e", "h">>}}
  /\ asked = [op |-> "none"]
  /\ pluginSettings \in Settings
  /\ vault = <<>>
  /\ loads = <<>>
  /\ lastOp = "init"
  /\ PipelineIdle
  /\ ScanIdle
  /\ AcceptIdle
  /\ SnippetIdle
  /\ ProvidersIdle

NextDict == AddWord \/ Ask

SpecDict == InitDict /\ [][NextDict]_vars

\* =========================================================================
\*  Word list tables: WordList.loadFromFiles and the settings tab
\* =========================================================================
\* vault holds the word list files, each the sequence of its lines. A call
\* of loadFromFiles runs up to its next await in one step; loads holds the
\* calls that are suspended at an await: pc "list" in getRelativeFilePaths,
\* pc "read" in vault.adapter.read of the first file of rest. Every listed
\* file is taken to be readable. before is the table as it was when no load
\* was in flight.
MaxFiles == 2
MaxLoads == 2

RECURSIVE trimStart(_)
trimStart(s) == IF s # <<>> /\ Head(s) = " " THEN trimStart(Tail(s)) ELSE s
RECURSIVE trimEnd(_)
trimEnd(s) ==
  IF s # <<>> /\ s[Len(s)] = " " THEN trimEnd(SubSeq(s, 1, Len(s) - 1)) ELSE s
trim(s) == trimEnd(trimStart(s))

\* One line of a word list file: lines 160-167.
pushLine(wm, settings, line) ==
  IF line = <<>> \/ (settings.minWordLength # <<>> /\ Len(line) < settings.minWordLength[1])
    THEN wm
  ELSE LET key == line[1]
           withBucket == IF \E k \in 1..Len(wm) : wm[k].key = key THEN wm
                         ELSE Append(wm, [key |-> key, words |-> <<>>])
       IN [k \in 1..Len(withBucket) |->
             IF withBucket[k].key = key
               THEN [withBucket[k] EXCEPT !.words = Append(@, trim(line))]
               ELSE withBucket[k]]

RECURSIVE pushLines(_, _, _)
pushLines(wm, settings, lines) ==
  IF lines = <<>> THEN wm
  ELSE pushLines(pushLine(wm, settings, Head(lines)), settings, Tail(lines))

\* SuggestionBlacklist.filterText
filterText(bl, words) ==
  LET Allowed(w) == w \notin bl IN
  IF Cardinality(bl) < 1 THEN words ELSE SelectSeq(words, Allowed)

\* arr.sort((a, b) => a.length - b.length)
sortWords(words) ==
  LET sorted == SortByLength([k \in 1..Len(words) |-> fromString(words[k])])
  IN [k \in 1..Len(sorted) |-> sorted[k].displayName]

\* "Filter & sort": lines 170-176.
filterAndSort(wm, bl) ==
  [k \in 1..Len(wm) |-> [wm[k] EXCEPT !.words = filterText(bl, sortWords(@))]]

\* loadFromFiles run from its first to its last statement with nothing in
\* between: the table it builds from the files.
RECURSIVE pushFiles(_, _, _)
pushFiles(wm, settings, files) ==
  IF files = <<>> THEN wm
  ELSE pushFiles(pushLines(wm, settings, Head(files)), settings, Tail(files))

Rebuilt(files, settings, bl) == filterAndSort(pushFiles(<<>>, settings, files), bl)

\* The files of the model.
WordListFiles ==
  { << <<"h", "e", "h">>, <<"h", "e">>, <<"h", "e", "h">> >>,
    << <<"H", "e">>, <<>>, <<" ", "e", "h">> >> }

isReloading == \E k \in 1..Len(loads) : loads[k].origin = "button"
Settled == IF loads = <<>> THEN wordMap ELSE loads[1].before
Without(s, k) == SubSeq(s, 1, k - 1) \o SubSeq(s, k + 1, Len(s))

ReloadFrame ==
  UNCHANGED <<pipeVars, scanVars, acceptVars, snippetVars, providerVars, blacklist, pluginSettings>>

\* loadFromFiles up to its first await: the table is cleared, the file names
\* are requested.
Started(origin) ==
  /\ wordMap' = <<>>
  /\ loads' = Append(loads, [origin |-> origin, pc |-> "list", rest |-> <<>>,
                             before |-> Settled])

\* The "Reload words" button of the settings tab.
ReloadWords ==
  /\ ~isReloading /\ Len(loads) < MaxLoads
  /\ Started("button")
  /\ lastOp' = "reload"
  /\ UNCHANGED <<vault, asked>>
  /\ ReloadFrame

\* The "Add" button of the settings tab: the file is written into the word
\* list folder, then the lists are loaded again.
ImportWordList ==
  /\ Len(vault) < MaxFiles /\ Len(loads) < MaxLoads
  /\ \E file \in WordListFiles :
       /\ \A k \in 1..Len(vault) : vault[k] # file
       /\ vault' = Append(vault, file)
  /\ Started("import")
  /\ lastOp' = "import"
  /\ UNCHANGED asked
  /\ ReloadFrame

\* getRelativeFilePaths resolves: the loop starts; without files the call
\* runs to its end.
FilesListed ==
  /\ \E k \in 1..Len(loads) :
       /\ loads[k].pc = "list"
       /\ IF vault = <<>>
            THEN /\ wordMap' = filterAndSort(wordMap, blacklist)
                 /\ loads' = Without(loads, k)
            ELSE /\ wordMap' = wordMap
                 /\ loads' = [loads EXCEPT ![k].pc = "read", ![k].rest = vault]
  /\ lastOp' = "listed"
  /\ UNCHANGED <<vault, asked>>
  /\ ReloadFrame

\* vault.adapter.read resolves: the lines of the file are pushed; after the
\* last file the call runs to its end.
FileRead ==
  /\ \E k \in 1..Len(loads) :
       /\ loads[k].pc = "read"
       /\ LET pushed == pushLines(wordMap, pluginSettings, Head(loads[k].rest)) IN
          IF Len(loads[k].rest) = 1
            THEN /\ wordMap' = filterAndSort(pushed, blacklist)
                 /\ loads' = Without(loads, k)
            ELSE /\ wordMap' = pushed
                 /\ loads' = [loads EXCEPT ![k].rest = Tail(@)]
  /\ lastOp' = "read"
  /\ UNCHANGED <<vault, asked>>
  /\ ReloadFrame

\* The pipeline asks the word list provider between two of these steps.
AskWordList ==
  /\ \E query \in Queries :
       asked' = [op |-> "getSuggestions", query |-> query, table |-> wordMap,
                 settled |-> Settled, loading |-> loads # <<>>,
                 result |-> getSuggestions(wordMap, query, pluginSettings)]
  /\ lastOp' = "getSuggestions"
  /\ UNCHANGED <<wordMap, vault, loads>>
  /\ ReloadFrame

\* After onload: the lists of the vault are loaded, nothing is in flight.
InitReload ==
  /\ vault \in {<<>>} \cup {<<file>> : file \in WordListFiles}
  /\ blacklist \in {{}, {<<"h", "e">>}}
  /\ pluginSettings \in {DEFAULT_SETTINGS, [DEFAULT_SETTINGS EXCEPT !.minWordLength = <<3>>]}
  /\ wordMap = Rebuilt(vault, pluginSettings, blacklist)
  /\ asked = [op |-> "none"]
  /\ loads = <<>>
  /\ lastOp = "init"
  /\ PipelineIdle
  /\ ScanIdle
  /\ AcceptIdle
  /\ SnippetIdle
  /\ ProvidersIdle

NextReload == ReloadWords \/ ImportWordList \/ FilesListed \/ FileRead \/ AskWordList

SpecReload == InitReload /\ [][NextReload]_vars

\* C26 (as claimed): the table a query reads is the complete table from
\* before the reload or the complete table rebuilt from the files.
C26_NoHalfUpdatedTable ==
  (lastOp = "getSuggestions" /\ asked.loading) =>
    asked.table \in {asked.settled, Rebuilt(vault, pluginSettings, blacklist)}

\* A loadFromFiles call has just run to its end and none is in flight.
LoadCompleted == lastOp = "read" /\ loads = <<>>

\* C34 (as claimed): once a load has run to its end, every word of a bucket
\* has the bucket's key as its first character.
C34_BucketInvariant ==
  LoadCompleted =>
    \A b \in 1..Len(wordMap) : \A k \in 1..Len(wordMap[b].words) :
      LET word == wordMap[b].words[k] IN
      word # <<>> /\ word[1] = wordMap[b].key

\* C35 (as claimed): once a load has run to its end, no bucket holds the
\* same word twice.
C35_NoWordTwice ==
  LoadCompleted =>
    \A b \in 1..Len(wordMap) : \A j, k \in 1..Len(wordMap[b].words) :
      j # k => wordMap[b].words[j] # wordMap[b].words[k]

\* C22 (as claimed): with the provider enabled, a query that is a non-empty
\* prefix of a word stored in the table returns a suggestion whose text is
\* that word.
Asked == lastOp = "getSuggestions"
Replacements == {asked.result[k].replacement : k \in 1..Len(asked.result)}
C22_RoundTrip ==
  (Asked /\ pluginSettings.enabled) =>
    \A w \in Stored(wordMap) : asked.query \in Prefixes(w) => w \in Replacements

\* C22 (amended): the same for every prefix that is at least
\* minWordTriggerLength characters long.
C22_RoundTripFromTriggerLength ==
  (Asked /\ pluginSettings.enabled /\ Len(asked.query) >= pluginSettings.minWordTriggerLength) =>
    \A w \in Stored(wordMap) : asked.query \in Prefixes(w) => w \in Replacements

\* C22 witness: a proper prefix of a stored word, long enough to trigger,
\* was asked and the word came back.
C22_Witness ==
  /\ Asked /\ pluginSettings.enabled
  /\ pluginSettings.minWordTriggerLength > 0
  /\ Len(asked.query) >= pluginSettings.minWordTriggerLength
  /\ \E w \in Stored(wordMap) :
       asked.query \in Prefixes(w) /\ asked.query # w /\ w \in Replacements

\* C23: in APPEND mode every returned replacement is the query as typed
\* followed by what a matching stored word has after the query's length; in
\* the two REPLACE modes every returned replacement is a stored word as
\* stored. For the entry heh and the query He: IGNORE_CASE_REPLACE gives heh,
\* APPEND gives Heh.
Fold(s) ==
  LET lowered == maybeLowerCase(s, pluginSettings.wordInsertionMode # "MATCH_CASE_REPLACE")
  IN IF pluginSettings.ignoreDiacriticsWhenFiltering THEN removeDiacritics(lowered) ELSE lowered
Triggers(q) ==
  pluginSettings.enabled /\ q # <<>> /\ Len(q) >= pluginSettings.minWordTriggerLength
C23_InsertionMode ==
  Asked =>
    /\ \A k \in 1..Len(asked.result) :
         IF pluginSettings.wordInsertionMode = "APPEND"
           THEN \E w \in Stored(wordMap) :
                  /\ startsWith(Fold(w), Fold(asked.query))
                  /\ asked.result[k].replacement
                       = asked.query \o SubSeq(w, Len(asked.query) + 1, Len(w))
           ELSE asked.result[k].replacement \in Stored(wordMap)
    /\ (Triggers(asked.query) /\ asked.query = <<"H", "e">> /\ <<"h", "e", "h">> \in Stored(wordMap)) =>
         /\ pluginSettings.wordInsertionMode = "IGNORE_CASE_REPLACE"
              => <<"h", "e", "h">> \in Replacements
         /\ pluginSettings.wordInsertionMode = "APPEND"
              => <<"H", "e", "h">> \in Replacements

\* C23 witness: in APPEND mode the query He was completed from the entry heh.
C23_Witness ==
  /\ Asked /\ pluginSettings.wordInsertionMode = "APPEND"
  /\ asked.query = <<"H", "e">>
  /\ <<"h", "e", "h">> \in Stored(wordMap)
  /\ <<"H", "e", "h">> \in Replacements
  /\ <<"H", "e", "h">> \notin Stored(wordMap)

\* C24: a query that is empty or shorter than minWordTriggerLength gets the
\* empty result, whatever the table and the other settings are.
TooShort(q) == q = <<>> \/ Len(q) < pluginSettings.minWordTriggerLength
C24_ShortQueryEmptyResult == (Asked /\ TooShort(asked.query)) => asked.result = <<>>

\* C24 witness: a query shorter than the trigger length that is a prefix of
\* a stored word got the empty result from an enabled provider.
C24_Witness ==
  /\ Asked /\ pluginSettings.enabled
  /\ asked.query # <<>> /\ Len(asked.query) < pluginSettings.minWordTriggerLength
  /\ \E w \in Stored(wordMap) : asked.query \in Prefixes(w)
  /\ asked.result = <<>>

\* C24 second case reached: the empty query was asked on a table that is
\* not empty.
C24_EmptyQueryReached ==
  Asked /\ asked.query = <<>> /\ pluginSettings.minWordTriggerLength = 0 /\ wordMap # <<>>

\* C25: the result is in ascending order of displayName length, and the
\* suggestions of one length are in the order the scan found them: the
\* buckets in the order they are checked, each bucket in its own order.
Found == Discovered(wordMap, asked.query, pluginSettings)
OfLength(s, n) ==
  LET Is(x) == Len(x.displayName) = n IN SelectSeq(s, Is)
Lengths(s) == {Len(s[k].displayName) : k \in 1..Len(s)}
C25_ResultOrder ==
  (Asked /\ Triggers(asked.query)) =>
    /\ \A i, j \in 1..Len(asked.result) :
         i < j => Len(asked.result[i].displayName) <= Len(asked.result[j].displayName)
    /\ Len(asked.result) = Len(Found)
    /\ \A n \in Lengths(Found) \cup Lengths(asked.result) :
         OfLength(asked.result, n) = OfLength(Found, n)

\* C25 witness: two different suggestions of one length came back, found in
\* the opposite order of their insertion into the table.
C25_Witness ==
  /\ Asked /\ Triggers(asked.query)
  /\ asked.result = <<fromString(<<"h", "e">>), fromString(<<"H", "e">>)>>
  /\ wordMap = <<[key |-> "H", words |-> << <<"H", "e">> >>],
                 [key |-> "h", words |-> << <<"h", "e">> >>]>>

\* C25 second case reached: the sort moved a shorter suggestion in front of
\* a longer one that was found first.
C25_SortedReached ==
  /\ Asked /\ Triggers(asked.query)
  /\ Len(asked.result) = 2 /\ asked.result # Found

\* C36 (as claimed): the matcher returns each word of the table at most once:
\* a result is never longer than the set of stored words that match the query.
Matching(q) == {w \in Stored(wordMap) : startsWith(Fold(w), Fold(q))}
C36_NoDuplicateMatches ==
  Asked => Len(asked.result) <= Cardinality(Matching(asked.query))

\* =========================================================================
\*  LaTeX command provider
\* =========================================================================

MaxLatexDocLen == 3

\* String.includes / String.indexOf on character sequences (0-based, -1 when
\* the text does not occur).
OccursAt(s, t, k) == k + Len(t) <= Len(s) /\ SubSeq(s, k + 1, k + Len(t)) = t
indexOf(s, t) ==
  IF \E k \in 0..Len(s) : OccursAt(s, t, k)
    THEN Min({k \in 0..Len(s) : OccursAt(s, t, k)})
    ELSE -1
includes(s, t) == indexOf(s, t) >= 0

\* repl.slice(1) when the replacement starts with a backslash.
dropLeadingBackslash(repl) ==
  IF Len(repl) > 0 /\ repl[1] = "\\" THEN SubSeq(repl, 2, Len(repl)) ELSE repl

\* repl.replace(/\n/g, "")
RECURSIVE removeNewlines(_)
removeNewlines(s) ==
  IF s = <<>> THEN <<>>
  ELSE (IF s[1] = "\n" THEN <<>> ELSE <<s[1]>>) \o removeNewlines(Tail(s))

\* `if (!latexBlockType)`: every BlockType, NONE included, is an object, and
\* no object is falsy.
IsFalsy(bt) == FALSE

\* results.sort: ascending priority, then ascending display name length; the
\* sort is stable.
LatexBefore(a, b) ==
  \/ a.priority < b.priority
  \/ a.priority = b.priority /\ Len(a.displayName) < Len(b.displayName)

RECURSIVE InsertLatex(_, _)
InsertLatex(sorted, x) ==
  IF sorted = <<>> THEN <<x>>
  ELSE IF LatexBefore(x, sorted[Len(sorted)])
    THEN InsertLatex(SubSeq(sorted, 1, Len(sorted) - 1), x) \o <<sorted[Len(sorted)]>>
    ELSE sorted \o <<x>>

RECURSIVE SortLatex(_)
SortLatex(s) ==
  IF s = <<>> THEN <<>>
  ELSE InsertLatex(SortLatex(SubSeq(s, 1, Len(s) - 1)), s[Len(s)])

\* The filter, map and sort of getSuggestions, for a block type already found.
LatexResults(commands, query, separatorChar, settings, bt) ==
  LET ignoreCase == settings.latexIgnoreCase
      typed == maybeLowerCase(query, ignoreCase)
      lower(cmd) == maybeLowerCase(cmd.displayName, ignoreCase)
      kept == SelectSeq(commands, LAMBDA cmd : includes(lower(cmd), typed))
      repl(cmd) ==
        LET r == IF separatorChar = <<"\\">> THEN dropLeadingBackslash(cmd.replacement)
                 ELSE cmd.replacement
        IN IF bt = "DOLLAR_SINGLE" THEN removeNewlines(r) ELSE r
      mapped == [k \in 1..Len(kept) |->
                  [displayName |-> kept[k].displayName, replacement |-> repl(kept[k]),
                   priority |-> indexOf(lower(kept[k]), typed)]]
      sorted == SortLatex(mapped)
  IN [k \in 1..Len(sorted) |->
        [displayName |-> sorted[k].displayName, replacement |-> sorted[k].replacement]]

\* The two early returns in front of the scanner call.
LatexSkips(query, settings) ==
  \/ ~settings.enableLatexProvider
  \/ query = <<>>
  \/ Len(query) < settings.minWordTriggerLength

\* A latex_commands.json with a plain command and an environment.
LatexCommands ==
  << [displayName |-> <<"\\", "x">>, replacement |-> <<"\\", "x">>],
     [displayName |-> <<"\\", "x", "x">>, replacement |-> <<"\\", "x", "x", "\n", "#">>] >>

\* The context the popup hands to the providers for a cursor: start is
\* maxLookBackDistance characters before the cursor, query and separator are
\* the word before the cursor.
LatexContext(lines, c) ==
  LET m == matchWordBackwards(lines, c, maxLookBackDistance)
  IN [start |-> [line |-> c.line, ch |-> Max(0, c.ch - maxLookBackDistance)],
      end |-> c, query |-> m.query, separatorChar |-> m.separatorChar]

\* One call of Latex.getSuggestions(context, settings), the scanner call
\* included.
LatexGetSuggestions ==
  /\ lastOp = "init"
  /\ \E c \in Positions(doc) :
       LET ctx == LatexContext(doc, c) IN
       IF LatexSkips(ctx.query, latexSettings)
         THEN /\ latexCall' = [op |-> "getSuggestions", cursor |-> c, query |-> ctx.query,
                               scanned |-> FALSE, result |-> <<>>]
              /\ UNCHANGED <<pos, triggerInCodeBlocks, stack, blockType, examined>>
         ELSE /\ pos' = ctx.start
              /\ triggerInCodeBlocks' = latexSettings.latexTriggerInCodeBlocks
              /\ stack' = BuildStack(doc, ctx.start)
              /\ blockType' = ResolveStack(stack', ctx.start, triggerInCodeBlocks')
              /\ examined' = LinesExamined(doc, ctx.start)
              /\ latexCall' =
                   [op |-> "getSuggestions", cursor |-> c, query |-> ctx.query,
                    scanned |-> TRUE,
                    result |-> IF IsFalsy(blockType') THEN <<>>
                               ELSE LatexResults(loadedCommands, ctx.query, ctx.separatorChar,
                                                 latexSettings, blockType')]
  /\ lastOp' = "Latex.getSuggestions"
  /\ UNCHANGED <<doc, loadedCommands, latexSettings, sessionVars, frontMatterVars, pipeVars,
                 acceptVars, snippetVars, dictVars>>

InitLatex ==
  /\ \E fm \in {<<>>, FrontMatterBlock}, body \in SeqsUpTo(Alphabet, MaxLatexDocLen) :
       doc = SplitLines(fm \o body)
  /\ pos = [line |-> 0, ch |-> 0]
  /\ triggerInCodeBlocks = FALSE
  /\ stack = <<>>
  /\ blockType = "NONE"
  /\ examined = [walked |-> {}, frontMatter |-> {}, scanned |-> {}]
  /\ lastOp = "init"
  /\ loadedCommands \in {<<>>, LatexCommands}
  /\ latexSettings \in [enableLatexProvider : BOOLEAN, latexTriggerInCodeBlocks : BOOLEAN,
                        latexIgnoreCase : {TRUE}, minWordTriggerLength : 1..MaxTriggerLength]
  /\ latexCall = [op |-> "none"]
  /\ SessionIdle
  /\ FrontMatterIdle
  /\ PipelineIdle
  /\ AcceptIdle
  /\ SnippetIdle
  /\ DictIdle

NextLatex == LatexGetSuggestions

SpecLatex == InitLatex /\ [][NextLatex]_vars

\* ---- claims about the LaTeX provider

LatexAsked == lastOp = "Latex.getSuggestions"

\* C31: the LaTeX provider returns no suggestion when the scanner reports NONE
\* for the cursor position; it returns suggestions only for another block type.
C31_LatexGatedByBlockType ==
  LatexAsked =>
    (GetLatexBlockType(doc, latexCall.cursor, latexSettings.latexTriggerInCodeBlocks) = "NONE"
       => latexCall.result = <<>>)

\* The same gate read on the position the provider hands to the scanner
\* (context.start) instead of the cursor.
LatexGatedAtContextStart ==
  (LatexAsked /\ latexCall.scanned /\ blockType = "NONE") => latexCall.result = <<>>

\* =========================================================================
\*  Popup session: trigger, selection and the blacklist command
\* =========================================================================
\* One editor with the scanner's table behind the popup. The words are made
\* of the word character x.
MaxSessionLen == 3

\* FileScanner.loadData: every line of scanned_words.txt goes through addWord.
RECURSIVE loadData(_, _, _)
loadData(wm, bl, contents) ==
  IF contents = <<>> THEN wm
  ELSE loadData(addWord(wm, bl, Head(contents)), bl, Tail(contents))

ScannedWords == << <<"x">>, <<"x", "x">>, <<"x", "x", "x">> >>

\* SuggestionPopup.trigger: <<>> stands for null.
trigger(lines, c, force, settings) ==
  LET m == matchWordBackwards(lines, c, maxLookBackDistance)
      start == [line |-> c.line, ch |-> Max(0, c.ch - Len(m.query))]
  IN IF ~force /\ (m.query = <<>> \/ Len(m.query) < settings.minWordTriggerLength
                   \/ ~settings.autoTrigger)
       THEN <<>>
       ELSE <<[start |-> start, end |-> c, query |-> m.query]>>

SessionFrame ==
  UNCHANGED <<providers, consulted, logged, threw, scanVars, applied,
              insertSpaceAfterComplete, placeholders, snippetVars,
              wordMap, asked, pluginSettings, vault, loads, latexVars, frontMatterVars>>

\* The popup is asked to show suggestions for the cursor: onTrigger builds
\* the context, getSuggestions fills the list from the scanner's table, and
\* the popup is open when the list is not empty.
ShowSuggestions ==
  /\ LET m == matchWordBackwards(text, cursor, maxLookBackDistance)
         start == [line |-> cursor.line, ch |-> Max(0, cursor.ch - maxLookBackDistance)]
         list == getSuggestions(wordMap, m.query, pluginSettings)
     IN /\ suggestions' = list
        /\ context' = [open |-> Len(list) > 0, start |-> start, end |-> cursor,
                       query |-> GetRange(text, start, cursor)]
        /\ popupCall' = [op |-> "getSuggestions", query |-> m.query]
  /\ lastOp' = "getSuggestions"
  /\ UNCHANGED <<text, cursor, selectedIndex, lastCursorLine, shouldPreventNextTrigger,
                 blacklist>>
  /\ SessionFrame

\* The command "Blacklist current suggestion": add(getSelectedItem()), then
\* trigger(editor, file, true). add reads the display name of its argument,
\* which throws when getSelectedItem returned undefined.
BlacklistCurrentSuggestion ==
  /\ context.open
  /\ LET selected == getSelectedItem IN
       IF selected = <<>>
         THEN /\ blacklist' = blacklist
              /\ popupCall' = [op |-> "blacklist", threw |-> TRUE]
         ELSE /\ blacklist' = blacklist \cup {selected[1].displayName}
              /\ popupCall' = [op |-> "blacklist", threw |-> FALSE,
                               name |-> selected[1].displayName,
                               result |-> trigger(text, cursor, TRUE, pluginSettings)]
  /\ lastOp' = "blacklist"
  /\ UNCHANGED <<text, cursor, suggestions, context, selectedIndex, lastCursorLine,
                 shouldPreventNextTrigger>>
  /\ SessionFrame

\* The update listener for a transaction that sets the selection:
\* handleCursorActivity at the new cursor.
CursorActivityAt(c) ==
  LET pm == handleCursorActivity(
              [lastCursorLine |-> lastCursorLine,
               shouldPreventNextTrigger |-> shouldPreventNextTrigger,
               placeholders |-> <<>>, open |-> context.open], c)
  IN /\ cursor' = c
     /\ lastCursorLine' = pm.lastCursorLine
     /\ shouldPreventNextTrigger' = pm.shouldPreventNextTrigger
     /\ context' = [context EXCEPT !.open = pm.open]

\* The user moves the cursor.
MoveCursorTo ==
  /\ \E c \in Positions(text) :
       /\ c # cursor
       /\ CursorActivityAt(c)
       /\ popupCall' = [op |-> "cursor", lineChanged |-> lastCursorLine # c.line]
  /\ lastOp' = "handleCursorActivity"
  /\ UNCHANGED <<text, suggestions, selectedIndex, blacklist>>
  /\ SessionFrame

\* The user types a word character: the update listener runs handleDocChange
\* (trigger with force, whose result is dropped) and handleCursorActivity.
TypeCharacter ==
  /\ DocLen(text) < MaxSessionLen
  /\ text' = ReplaceRange(text, <<"x">>, cursor, cursor)
  /\ CursorActivityAt([cursor EXCEPT !.ch = cursor.ch + 1])
  /\ popupCall' = [op |-> "type"]
  /\ lastOp' = "handleDocChange"
  /\ UNCHANGED <<suggestions, selectedIndex, blacklist>>
  /\ SessionFrame

\* One call of trigger: the command "Open suggestion popup" passes force =
\* true, the editor's own auto-trigger passes false. The call neither reads
\* nor writes shouldPreventNextTrigger.
Trigger ==
  /\ \E force \in BOOLEAN :
       popupCall' = [op |-> "trigger", force |-> force,
                     prevented |-> shouldPreventNextTrigger,
                     result |-> trigger(text, cursor, force, pluginSettings)]
  /\ lastOp' = "trigger"
  /\ UNCHANGED <<text, cursor, suggestions, context, selectedIndex, lastCursorLine,
                 shouldPreventNextTrigger, blacklist>>
  /\ SessionFrame

InitSession ==
  /\ \E body \in SeqsUpTo({"x", "\n"}, MaxSessionLen - 1) : text = SplitLines(body)
  /\ cursor = [line |-> 0, ch |-> 0]
  /\ context = NoContext
  /\ selectedIndex = 0
  /\ applied = <<>>
  /\ insertSpaceAfterComplete = TRUE
  /\ lastCursorLine = -1
  /\ shouldPreventNextTrigger = FALSE
  /\ placeholders = <<>>
  /\ wordMap = loadData(<<>>, {}, ScannedWords)
  /\ blacklist = {}
  /\ asked = [op |-> "none"]
  /\ pluginSettings \in {[DEFAULT_SETTINGS EXCEPT !.minWordTriggerLength = n] :
                           n \in 1..MaxTriggerLength}
  /\ vault = <<>>
  /\ loads = <<>>
  /\ providers = <<>>
  /\ suggestions = <<>>
  /\ consulted = {}
  /\ logged = <<>>
  /\ threw = FALSE
  /\ lastOp = "init"
  /\ ScanIdle
  /\ SnippetIdle
  /\ LatexIdle
  /\ SessionIdle
  /\ FrontMatterIdle

NextSession ==
  ShowSuggestions \/ SelectNextItem \/ BlacklistCurrentSuggestion \/ MoveCursorTo
    \/ TypeCharacter \/ Trigger

SpecSession == InitSession /\ [][NextSession]_vars

\* ---- claims about the popup session

\* C37 (as claimed): whenever the popup shows a non-empty list, selectedIndex
\* is an index of the list, so getSelectedItem returns one of its elements.
C37_SelectedIndexInRange ==
  (context.open /\ Len(suggestions) > 0) =>
    /\ 0 <= selectedIndex /\ selectedIndex < Len(suggestions)
    /\ getSelectedItem # <<>>

\* C38 (as claimed): a trigger that follows a line change returns null, and
\* the suppression is lifted by it.
C38_LineChangeSuppressesNextTrigger ==
  (lastOp = "trigger" /\ popupCall.prevented) =>
    /\ popupCall.result = <<>>
    /\ ~shouldPreventNextTrigger

\* C39 (as claimed): no suggestion computation returns a suggestion whose
\* display name is on the blacklist.
C39_BlacklistedNeverSuggested ==
  lastOp = "getSuggestions" =>
    \A k \in 1..Len(suggestions) : suggestions[k].displayName \notin blacklist

\* =========================================================================
\*  Front-matter key table (front_matter_provider.ts)
\* =========================================================================
\* A CachedMetadata is <<>> (no file cache) or <<[frontmatter, tags]>>: the
\* front matter is <<>> (none) or <<the key/value pairs in Object.keys
\* order>>, tags is what getAllTags returns. A value is a scalar (a string,
\* "" being falsy like null), or a list of strings. A YAMLKeyCache is its
\* keyMap: the infos [key, isList, completions] in insertion order.

Scalar(s) == [kind |-> "scalar", s |-> s, items |-> <<>>]
List(items) == [kind |-> "list", s |-> <<>>, items |-> items]

HasKey(keyMap, key) == \E k \in 1..Len(keyMap) : keyMap[k].key = key
WithKey(keyMap, key) ==
  IF HasKey(keyMap, key) THEN keyMap
  ELSE Append(keyMap, [key |-> key, isList |-> FALSE, completions |-> {}])

\* YAMLKeyCache.addEntry
addEntry(keyMap, key, value) ==
  LET km == WithKey(keyMap, key) IN
  [k \in 1..Len(km) |->
     IF km[k].key = key THEN [km[k] EXCEPT !.completions = @ \cup {value}] ELSE km[k]]

\* YAMLKeyCache.addEntries
addEntries(keyMap, key, values) ==
  LET km == WithKey(keyMap, key) IN
  [k \in 1..Len(km) |->
     IF km[k].key = key
       THEN [km[k] EXCEPT !.isList = TRUE,
                          !.completions = @ \cup {values[j] : j \in {i \in 1..Len(values) :
                                                                     values[i] # <<>>}}]
       ELSE km[k]]

\* The loop over Object.keys(cache.frontmatter).
RECURSIVE addFrontMatterKeys(_, _)
addFrontMatterKeys(keyMap, pairs) ==
  IF pairs = <<>> THEN keyMap
  ELSE LET key == Head(pairs).key
           val == Head(pairs).val
           next ==
             IF key \in {"position", "publish", "tags"} THEN keyMap
             ELSE IF val.kind = "scalar" /\ val.s = <<>> THEN keyMap
             ELSE IF val.kind = "list" THEN addEntries(keyMap, key, val.items)
             ELSE addEntry(keyMap, key, val.s)
       IN addFrontMatterKeys(next, Tail(pairs))

\* The YAMLKeyCache addKeyCompletionsFromFile builds for a cache that has a
\* front matter.
BuildKeyCache(cache) ==
  LET keyed == addFrontMatterKeys(<<>>, cache.frontmatter[1])
  IN IF Len(cache.tags) > 0
       THEN addEntries(keyed, "tags", [k \in 1..Len(cache.tags) |-> substring(cache.tags[k], 1)])
       ELSE keyed

\* addKeyCompletionsFromFile without its first line.
addKeyCompletionsAlways(fsc, file, cached) ==
  IF cached = <<>> THEN fsc
  ELSE [fsc EXCEPT ![file] =
          IF cached[1].frontmatter = <<>> THEN <<>> ELSE <<BuildKeyCache(cached[1])>>]

\* addKeyCompletionsFromFile(file, cache) on the fileSuggestionCache.
addKeyCompletionsFromFile(fsc, file, cached) ==
  IF cached = <<>> \/ cached[1].frontmatter = <<>> THEN fsc
  ELSE [fsc EXCEPT ![file] = <<BuildKeyCache(cached[1])>>]

\* getAllKnownKeys over the caches of the given files, taken in the order
\* the recursion meets them; the combined infos as a set.
RECURSIVE CombineInfos(_, _)
CombineInfos(combined, infos) ==
  IF infos = <<>> THEN combined
  ELSE LET info == Head(infos)
           km == WithKey(combined, info.key)
       IN CombineInfos(
            [k \in 1..Len(km) |->
               IF km[k].key = info.key
                 THEN [km[k] EXCEPT !.completions = @ \cup info.completions,
                                    !.isList = @ \/ info.isList]
                 ELSE km[k]],
            Tail(infos))

RECURSIVE CombineCaches(_, _, _)
CombineCaches(combined, fsc, files) ==
  IF files = {} THEN combined
  ELSE LET f == CHOOSE x \in files : TRUE
           infos == IF fsc[f] = <<>> THEN <<>> ELSE fsc[f][1]
       IN CombineCaches(CombineInfos(combined, infos), fsc, files \ {f})

getAllKnownKeys(fsc, files) ==
  LET combined == CombineCaches(<<>>, fsc, files)
  IN {combined[k] : k \in 1..Len(combined)}

\* loadYAMLKeyCompletions: every file that has a file cache.
RECURSIVE loadYAMLKeyCompletions(_, _, _)
loadYAMLKeyCompletions(fsc, md, files) ==
  IF files = {} THEN fsc
  ELSE LET f == CHOOSE x \in files : TRUE
       IN loadYAMLKeyCompletions(addKeyCompletionsFromFile(fsc, f, md[f]), md, files \ {f})

\* ---- the front matters of the model
FrontMatters ==
  { << [key |-> "a", val |-> Scalar(<<"v">>)] >>,
    << [key |-> "a", val |-> List(<< <<"v">>, <<>>, <<"w">> >>)],
       [key |-> "b", val |-> Scalar(<<"w">>)] >>,
    << [key |-> "publish", val |-> Scalar(<<"t">>)], [key |-> "b", val |-> Scalar(<<>>)] >> }
TagLists == {<<>>, << <<"#", "t">> >>}
CachedMetadatas ==
  {<<>>} \cup {<<[frontmatter |-> fm, tags |-> tags]>> :
                 fm \in {<<>>} \cup {<<x>> : x \in FrontMatters}, tags \in TagLists}

\* metadataCache "changed": onCacheChange(file, data, cache).
OnCacheChange ==
  /\ \E file \in Files, cached \in CachedMetadatas \ {<<>>} :
       /\ metadata' = [metadata EXCEPT ![file] = cached]
       /\ fileSuggestionCache' = addKeyCompletionsFromFile(fileSuggestionCache, file, cached)
  /\ lastOp' = "onCacheChange"
  /\ UNCHANGED <<pipeVars, scanVars, acceptVars, snippetVars, dictVars, latexVars, sessionVars>>

\* After the layout is ready: loadYAMLKeyCompletions over the vault's files.
InitFrontMatter ==
  /\ metadata \in [Files -> CachedMetadatas]
  /\ fileSuggestionCache = loadYAMLKeyCompletions([f \in Files |-> <<>>], metadata, Files)
  /\ lastOp = "init"
  /\ PipelineIdle
  /\ ScanIdle
  /\ AcceptIdle
  /\ SnippetIdle
  /\ DictIdle
  /\ LatexIdle
  /\ SessionIdle

NextFrontMatter == OnCacheChange

SpecFrontMatter == InitFrontMatter /\ [][NextFrontMatter]_vars

\* ---- claims about the front-matter key table

\* What file f contributes to getAllKnownKeys, and what its most recent
\* metadata holds.
Contributed(f) == getAllKnownKeys(fileSuggestionCache, {f})
OfMostRecentMetadata(f) ==
  getAllKnownKeys(addKeyCompletionsAlways([g \in Files |-> <<>>], f, metadata[f]), {f})

\* C40 (as claimed): after any sequence of metadata changes, what file F
\* contributes to getAllKnownKeys is what F's most recent metadata holds;
\* nothing once its front matter has been removed.
C40_KeyTableFollowsMetadata ==
  lastOp = "onCacheChange" => \A f \in Files : Contributed(f) = OfMostRecentMetadata(f)

\* The same while the file's metadata has a front matter.
KeyTableFollowsFrontMatter ==
  lastOp = "onCacheChange" =>
    \A f \in Files :
      (metadata[f] # <<>> /\ metadata[f][1].frontmatter # <<>>)
        => Contributed(f) = OfMostRecentMetadata(f)

====
